---- MODULE Spec2Model ----
(***************************************************************************)
(* Version lifecycle engine of the hot-update backend: the registry        *)
(* document (lib/state.js), the sentinel lock file (lib/lock.js), the     *)
(* publish/switch coordinator and the upload handler (server.js) and the  *)
(* storage listing and sync (lib/storage.js).                             *)
(*                                                                         *)
(* Every await of the source is a step boundary: one action is the code   *)
(* that runs between two awaits of one request-handling task.             *)
(***************************************************************************)
EXTENDS Naturals, Sequences, FiniteSets

\* ---------------------------------------------------------------- bounds
\* Concurrent publish/switch request tasks.
NumAppliers == 2
\* Concurrent upload request tasks.
NumUploaders == 1
\* Requests (upload, publish, switch) started in one behaviour.
MaxRequests == 2
\* The largest options.retries withRetry is called with.
MaxRetries == 2
\* withFileLock's retries (options.retries ?? 60); the model polls fewer times.
LockRetries == 2

Appliers == 1..NumAppliers
Uploaders == 1..NumUploaders

\* Version identifiers: digit strings, as parseVersionFromFilename and the
\* /^\d+$/ test of handlePublishOrSwitch accept them.
Versions == {"100", "101"}
\* The action labels the two routes pass to handlePublishOrSwitch.
ApplyActions == {"publish", "switch"}

\* ----------------------------------------------------------------- state
VARIABLES
  driver,      \* STORAGE_DRIVER: "local", or "cos" (mirror to the bucket)
  now,         \* the value the next new Date() returns
  lockFile,    \* TRUE iff {state path}.publish.lock exists
  stateFile,   \* the document in state.json
  tempFile,    \* state.json.tmp: <<document>>, or NoFile
  dirs,        \* root directory (or bucket prefix) -> versions with a tree in it
  bundle,      \* version -> the entries under {upload root}/{version}
  script,      \* the version publish-sync.sh is copying, or NoVersion
  started,     \* requests started so far
  applied,     \* <<action, version>> of each setCurrentVersion that returned
  apc,         \* applier: position in handlePublishOrSwitch / applyVersion
  aver,        \* applier: request body's version
  aact,        \* applier: action of the route
  attempt,     \* applier: withFileLock's attempt
  handle,      \* applier: withFileLock's handle is set
  astate,      \* applier: the document its last readState returned
  anext,       \* applier: nextState of setCurrentVersion
  aresult,     \* applier: outcome of the request
  upc,         \* uploader: position in POST /admin/upload
  uver,        \* uploader: version parsed from the filename
  uzip,        \* uploader: the entries of the archive AdmZip opened
  ulayout,     \* uploader: what inspectArchiveLayout returned
  ustate,      \* uploader: the document recordUpload read
  unext,       \* uploader: nextState of recordUpload
  uresult,     \* uploader: outcome of the request
  utemp,       \* uploader: the staging directory mkdtemp made exists
  \* The registry at file level (the registry specification only):
  statePath,   \* the file at statePath: <<text>>, or NoFile
  tempPath,    \* the file at tempPath: <<text>>, or NoFile
  rpc,         \* the task's position in readState / atomicWriteState
  rop,         \* the call the task is in: "read", "write" or "none"
  rarg,        \* the state passed to atomicWriteState
  rret,        \* what readState returned, no call since: <<value>>, or NoFile
  rbefore,     \* <<statePath>> when the last atomicWriteState was called
  rseen,       \* <<statePath, tempPath>> when the last readState was called
  rwritten,    \* <<state>> of an atomicWriteState(state) just completed
  \* Storage sync (lib/storage.js):
  cosEnv,      \* "mock" (PULZZ_COS_MOCK_ROOT set), "configured" (the four
               \* TENCENT_* values set) or "unconfigured" (one is absent)
  objects,     \* prefix root -> version -> the keys (relative paths) under it
  uattempt,    \* uploader: withRetry's i in the remote call under way
  ukeys,       \* uploader: staleKeys that listAllKeysByPrefix returned
  ufiles,      \* uploader: the files of listFiles(sourceDir) still to put
  ucalls,      \* uploader: remote calls issued so far in this request
  \* GET /admin/versions and the registration entrypoint:
  lpc,         \* the listing task's position
  lstate,      \* the document the listing task read
  lresult,     \* the listing's response data, or NoFile
  gresult,     \* <<version, outcome>> of the last register request, or NoFile
  \* withRetry on its own (the retry specification only):
  wretries,    \* options.retries
  wbaseDelay,  \* options.baseDelayMs
  wi,          \* the loop's i
  wpc,         \* "idle", "task", "sleep" or "done"
  werror,      \* the error the last attempt threw, or NoFile
  wattempts,   \* the outcomes of the attempts made: "ok" or the error thrown
  wslept,      \* the delays slept
  wresult      \* "none", "returned" or "thrown"

fsVars == <<lockFile, stateFile, tempFile, dirs, bundle, script>>
aVars == <<apc, aver, aact, attempt, handle, astate, anext, aresult>>
uVars == <<upc, uver, uzip, ulayout, ustate, unext, uresult, utemp>>
rVars == <<statePath, tempPath, rpc, rop, rarg, rret, rbefore, rseen,
           rwritten>>
sVars == <<cosEnv, objects, uattempt, ukeys, ufiles, ucalls>>
lVars == <<lpc, lstate, lresult, gresult>>
wVars == <<wretries, wbaseDelay, wi, wpc, werror, wattempts, wslept, wresult>>
mVars == <<driver, now, fsVars, started, applied, aVars, uVars, sVars, lVars>>
vars == <<mVars, rVars, wVars>>

\* A file that may be absent: <<>> when absent, <<content>> when present.
NoFile == <<>>
NoVersion == "none"

\* -------------------------------------------------------------- registry
DEFAULT_STATE == [currentVersion |-> "", versions |-> <<>>, history |-> <<>>]

\* normalizeState keeps the three fields of a document and drops the rest.
normalizeState(raw) ==
  [currentVersion |-> raw.currentVersion,
   versions |-> raw.versions,
   history |-> raw.history]

\* readState: ensureStateFile finds the live file (createServer wrote it and
\* rename never removes it), JSON.parse, normalizeState.
readState == normalizeState(stateFile)

hasVersion(versions, version) ==
  \E i \in 1..Len(versions) : versions[i].version = version

\* Mutant: a record is appended whether or not the version has one.
upsertVersionAppend(versions, version, t) ==
  [versions |-> Append(versions, [version |-> version, uploadedAt |-> t]),
   overwrite |-> hasVersion(versions, version)]

\* upsertVersion: the first record of `version` gets uploadedAt = now in
\* place; without one a record {version, uploadedAt} is appended.
upsertVersion(versions, version, t) ==
  IF hasVersion(versions, version)
    THEN LET k == CHOOSE i \in 1..Len(versions) :
                    /\ versions[i].version = version
                    /\ \A j \in 1..(i - 1) : versions[j].version # version
         IN  [versions |-> [versions EXCEPT ![k].uploadedAt = t],
              overwrite |-> TRUE]
    ELSE [versions |-> Append(versions, [version |-> version, uploadedAt |-> t]),
          overwrite |-> FALSE]

\* Mutant: the history entry is `upload` whatever upsertVersion returned.
recordUploadNextAlwaysUpload(state, version, t) ==
  [currentVersion |-> state.currentVersion,
   versions |-> upsertVersion(state.versions, version, t).versions,
   history |-> Append(state.history,
                 [action |-> "upload", version |-> version, at |-> t])]

\* recordUpload's nextState: {...state, versions, history + one entry}.
recordUploadNext(state, version, t) ==
  LET result == upsertVersion(state.versions, version, t)
  IN  [currentVersion |-> state.currentVersion,
       versions |-> result.versions,
       history |-> Append(state.history,
                     [action |-> IF result.overwrite THEN "upload_overwrite"
                                                     ELSE "upload",
                      version |-> version,
                      at |-> t])]

\* {...v, publishedAt: now}
withPublishedAt(v, t) ==
  [version |-> v.version, uploadedAt |-> v.uploadedAt, publishedAt |-> t]

\* Mutant: a version without a record gets none.
nextVersionsKnownOnly(versions, version, t) ==
  [i \in 1..Len(versions) |->
     IF versions[i].version = version
       THEN withPublishedAt(versions[i], t)
       ELSE versions[i]]

\* setCurrentVersion's nextVersions: every record of `version` gets
\* publishedAt; without one a record with both timestamps is appended.
nextVersions(versions, version, t) ==
  IF hasVersion(versions, version)
    THEN [i \in 1..Len(versions) |->
            IF versions[i].version = version
              THEN withPublishedAt(versions[i], t)
              ELSE versions[i]]
    ELSE Append(versions,
                [version |-> version, uploadedAt |-> t, publishedAt |-> t])

\* Mutant: the history entry is `publish` whatever the route.
setCurrentVersionNextPublishLabel(state, version, action, t) ==
  [currentVersion |-> version,
   versions |-> nextVersions(state.versions, version, t),
   history |-> Append(state.history,
                 [action |-> "publish", version |-> version, at |-> t])]

\* setCurrentVersion's nextState.
setCurrentVersionNext(state, version, action, t) ==
  [currentVersion |-> version,
   versions |-> nextVersions(state.versions, version, t),
   history |-> Append(state.history,
                 [action |-> action, version |-> version, at |-> t])]

\* ---------------------------------------------------------------- storage
\* getUploadRoot("wxmini"), under CDN_ROOT.
getUploadRoot == <<"cdn", "gameres/wxmini">>

\* The legacy prefix root: the publish path convention, which has no platform
\* segment.
getLegacyHotupdatePrefixRoot ==
  "hotupdate/com.smartdog.bbqgame/WebGLWxMiniGame/1.0.0/WxMiniGame/DefaultPackage"

\* Where the legacy prefix root lies: under CDN_ROOT for the local driver, in
\* the bucket (or PULZZ_COS_MOCK_ROOT) for the cos driver.
localLegacyRoot == <<"cdn", getLegacyHotupdatePrefixRoot>>
cosLegacyRoot == <<"cos", getLegacyHotupdatePrefixRoot>>

Roots == {getUploadRoot, localLegacyRoot, cosLegacyRoot}

\* The primary prefix of the bucket, keyed by platform and version: where the
\* test 'upload with cos driver syncs files to cos mock path' reads the
\* bundle back.
cosPrimaryRoot == <<"cos", "pulzz-gameres/wxmini">>

\* The prefix roots of the bucket (or of PULZZ_COS_MOCK_ROOT).
ObjectRoots == {cosPrimaryRoot, cosLegacyRoot}

\* syncToCosReal's versionPrefixes (syncToCosMock's legacyRoot): the prefixes
\* a sync of a version writes, by their roots.
versionPrefixes == {cosLegacyRoot}

\* listFiles: the files of a tree, by their paths relative to its root.
listFiles(tree) == {e[1] : e \in {x \in tree : ~x[2]}}

\* listVersionsByFsRoot / listVersionsFromCos: the numeric names under a root.
listVersionsByFsRoot(rootDir) == dirs[rootDir]

\* Mutant: the versions under the upload root are listed.
listAvailableVersionsOfUploadRoot == listVersionsByFsRoot(getUploadRoot)

\* listAvailableVersions: the versions under the legacy prefix root of the
\* driver in use.
listAvailableVersions ==
  IF driver = "cos" THEN listVersionsByFsRoot(cosLegacyRoot)
                    ELSE listVersionsByFsRoot(localLegacyRoot)

\* fs.rm(root/version, {recursive, force}) and fs.cp(..., root/version).
rmTree(rootDir, version) == [dirs EXCEPT ![rootDir] = @ \ {version}]
cpTree(rootDir, version) == [dirs EXCEPT ![rootDir] = @ \cup {version}]

\* No remote call is under way.
syncIdle ==
  /\ uattempt = [u \in Uploaders |-> 0]
  /\ ukeys = [u \in Uploaders |-> {}]
  /\ ufiles = [u \in Uploaders |-> {}]
  /\ ucalls = [u \in Uploaders |-> 0]

\* No listing or register request has been made.
listingUnobserved ==
  /\ lpc = "idle"
  /\ lstate = DEFAULT_STATE
  /\ lresult = NoFile
  /\ gresult = NoFile

\* withRetry is not under observation.
retryUnobserved ==
  /\ wretries = 0
  /\ wbaseDelay = 0
  /\ wi = 0
  /\ wpc = "idle"
  /\ werror = NoFile
  /\ wattempts = <<>>
  /\ wslept = <<>>
  /\ wresult = "none"

\* The file-level variables while the request model runs: not observed.
registryUnobserved ==
  /\ statePath = NoFile
  /\ tempPath = NoFile
  /\ rpc = "idle"
  /\ rop = "none"
  /\ rarg = [t |-> "null"]
  /\ rret = NoFile
  /\ rbefore = NoFile
  /\ rseen = NoFile
  /\ rwritten = NoFile

\* -------------------------------------------------------------- archives
\* A filename is the sequence of its characters.
Digits == {"0", "1", "2", "3", "4", "5", "6", "7", "8", "9"}

\* String.prototype.toLowerCase, on ASCII letters.
lowerCase ==
  [A |-> "a", B |-> "b", C |-> "c", D |-> "d", E |-> "e", F |-> "f",
   G |-> "g", H |-> "h", I |-> "i", J |-> "j", K |-> "k", L |-> "l",
   M |-> "m", N |-> "n", O |-> "o", P |-> "p", Q |-> "q", R |-> "r",
   S |-> "s", T |-> "t", U |-> "u", V |-> "v", W |-> "w", X |-> "x",
   Y |-> "y", Z |-> "z"]

toLowerCase(chars) ==
  [k \in 1..Len(chars) |->
     IF chars[k] \in DOMAIN lowerCase THEN lowerCase[chars[k]] ELSE chars[k]]

\* path.parse of a name without directory separators: ext runs from the last
\* dot, unless the name has no dot or only a leading one; name is the rest.
pathParse(filename) ==
  LET dots == {k \in 1..Len(filename) : filename[k] = "."}
      lastDot == IF dots = {} THEN 0
                 ELSE CHOOSE k \in dots : \A j \in dots : j <= k
  IN  IF lastDot <= 1
        THEN [name |-> filename, ext |-> <<>>]
        ELSE [name |-> SubSeq(filename, 1, lastDot - 1),
              ext |-> SubSeq(filename, lastDot, Len(filename))]

\* The string of a character sequence.
RECURSIVE join(_)
join(chars) == IF chars = <<>> THEN "" ELSE Head(chars) \o join(Tail(chars))

\* Mutant: the stem is not tested.
parseVersionAnyStem(filename) ==
  LET parsed == pathParse(filename)
  IN  IF toLowerCase(parsed.ext) # <<".", "z", "i", "p">> THEN NoVersion
      ELSE join(parsed.name)

\* parseVersionFromFilename: the stem when the lower-cased extension is .zip
\* and the stem matches /^\d+$/; NoVersion stands for null.
parseVersionFromFilename(filename) ==
  LET parsed == pathParse(filename)
  IN  IF toLowerCase(parsed.ext) # <<".", "z", "i", "p">> THEN NoVersion
      ELSE IF ~(/\ Len(parsed.name) >= 1
                /\ \A k \in 1..Len(parsed.name) : parsed.name[k] \in Digits)
        THEN NoVersion
      ELSE join(parsed.name)

\* An archive is the set of its entries; an entry's entryName is a sequence
\* of segments and separators ("/" or "\\"), isDirectory is AdmZip's flag.
file(entryName) == [entryName |-> entryName, isDirectory |-> FALSE]
directory(entryName) == [entryName |-> entryName, isDirectory |-> TRUE]

Separators == {"/", "\\"}

\* normalizeZipEntryName: every backslash becomes a slash and the leading
\* slashes are removed.
RECURSIVE stripLeadingSlashes(_)
stripLeadingSlashes(name) ==
  IF name # <<>> /\ Head(name) = "/" THEN stripLeadingSlashes(Tail(name))
                                      ELSE name

normalizeZipEntryName(name) ==
  stripLeadingSlashes([k \in 1..Len(name) |->
                         IF name[k] = "\\" THEN "/" ELSE name[k]])

\* name.split('/').filter(Boolean)
RECURSIVE parts(_)
parts(name) ==
  IF name = <<>> THEN <<>>
  ELSE IF Head(name) = "/" THEN parts(Tail(name))
  ELSE <<Head(name)>> \o parts(Tail(name))

\* The entries inspectArchiveLayout looks at: normalized, directory markers
\* recognized by their trailing slash too, empty names and __MACOSX dropped.
inspectedEntries(zip) ==
  LET normalized(entry) ==
        LET name == normalizeZipEntryName(entry.entryName)
        IN  [name |-> name,
             isDirectory |-> \/ entry.isDirectory
                             \/ (name # <<>> /\ name[Len(name)] = "/")]
  IN  {e \in {normalized(entry) : entry \in zip} :
         /\ e.name # <<>>
         /\ ~(Len(e.name) >= 2 /\ e.name[1] = "__MACOSX" /\ e.name[2] = "/")
         /\ e.name # <<"__MACOSX">>}

\* Mutant: a single top folder is flattened whatever its name.
inspectArchiveLayoutAnyName(zip, version) ==
  LET entries == inspectedEntries(zip)
      topFolders == {parts(e.name)[1] :
                       e \in {x \in entries :
                                \/ x.isDirectory /\ Len(parts(x.name)) >= 1
                                \/ ~x.isDirectory /\ Len(parts(x.name)) > 1}}
      hasRootFile == \E e \in entries :
                       ~e.isDirectory /\ Len(parts(e.name)) = 1
  IN  IF entries = {} THEN [ok |-> FALSE, flatten |-> FALSE]
      ELSE IF Cardinality(topFolders) = 1 /\ ~hasRootFile
        THEN [ok |-> TRUE, flatten |-> TRUE]
      ELSE IF Cardinality(topFolders) > 1 /\ ~hasRootFile
        THEN [ok |-> FALSE, flatten |-> FALSE]
      ELSE [ok |-> TRUE, flatten |-> FALSE]

\* Mutant: a root file does not keep a single top folder from flattening.
inspectArchiveLayoutRootIgnored(zip, version) ==
  LET entries == inspectedEntries(zip)
      topFolders == {parts(e.name)[1] :
                       e \in {x \in entries :
                                \/ x.isDirectory /\ Len(parts(x.name)) >= 1
                                \/ ~x.isDirectory /\ Len(parts(x.name)) > 1}}
  IN  IF entries = {} THEN [ok |-> FALSE, flatten |-> FALSE]
      ELSE IF Cardinality(topFolders) = 1
        THEN IF topFolders # {version}
               THEN [ok |-> FALSE, flatten |-> FALSE]
               ELSE [ok |-> TRUE, flatten |-> TRUE]
      ELSE IF Cardinality(topFolders) > 1
        THEN [ok |-> FALSE, flatten |-> FALSE]
      ELSE [ok |-> TRUE, flatten |-> FALSE]

\* Mutant: the entries are not counted before the layout is decided.
inspectArchiveLayoutNotCounted(zip, version) ==
  LET entries == inspectedEntries(zip)
      topFolders == {parts(e.name)[1] :
                       e \in {x \in entries :
                                \/ x.isDirectory /\ Len(parts(x.name)) >= 1
                                \/ ~x.isDirectory /\ Len(parts(x.name)) > 1}}
      hasRootFile == \E e \in entries :
                       ~e.isDirectory /\ Len(parts(e.name)) = 1
  IN  IF Cardinality(topFolders) = 1 /\ ~hasRootFile
        THEN IF topFolders # {version}
               THEN [ok |-> FALSE, flatten |-> FALSE]
               ELSE [ok |-> TRUE, flatten |-> TRUE]
      ELSE IF Cardinality(topFolders) > 1 /\ ~hasRootFile
        THEN [ok |-> FALSE, flatten |-> FALSE]
      ELSE [ok |-> TRUE, flatten |-> FALSE]

\* inspectArchiveLayout: no entry: rejected; one top folder and no root file:
\* flattened when the folder is named as the version, rejected when not;
\* several top folders and no root file: rejected; any other layout: accepted
\* as it is.
inspectArchiveLayout(zip, version) ==
  LET entries == inspectedEntries(zip)
      topFolders == {parts(e.name)[1] :
                       e \in {x \in entries :
                                \/ x.isDirectory /\ Len(parts(x.name)) >= 1
                                \/ ~x.isDirectory /\ Len(parts(x.name)) > 1}}
      hasRootFile == \E e \in entries :
                       ~e.isDirectory /\ Len(parts(e.name)) = 1
  IN  IF entries = {} THEN [ok |-> FALSE, flatten |-> FALSE]
      ELSE IF Cardinality(topFolders) = 1 /\ ~hasRootFile
        THEN IF topFolders # {version}
               THEN [ok |-> FALSE, flatten |-> FALSE]
               ELSE [ok |-> TRUE, flatten |-> TRUE]
      ELSE IF Cardinality(topFolders) > 1 /\ ~hasRootFile
        THEN [ok |-> FALSE, flatten |-> FALSE]
      ELSE [ok |-> TRUE, flatten |-> FALSE]

\* zip.extractAllTo(tempDir): every entry with a path lands under tempDir at
\* its segments (a tree is the set of <<path, isDirectory>> in it).
extractAllTo(zip) ==
  {<<parts(normalizeZipEntryName(entry.entryName)), entry.isDirectory>> :
     entry \in {e \in zip : parts(normalizeZipEntryName(e.entryName)) # <<>>}}

\* Mutant: the staged tree is copied from its root.
sourceDirNotFlattened(zip, version, layout) == extractAllTo(zip)

\* What fs.cp copies into destDir: the tree under sourceDir, which is
\* tempDir/version when the layout is flattened and tempDir when not.
sourceDir(zip, version, layout) ==
  IF layout.flatten
    THEN {<<Tail(e[1]), e[2]>> :
            e \in {x \in extractAllTo(zip) :
                     Len(x[1]) >= 2 /\ x[1][1] = version}}
    ELSE extractAllTo(zip)

\* ---------------------------------------------------------- remote calls
\* COS_RETRY_COUNT (without the environment's override).
COS_RETRY_COUNT == 3

\* The errors the provider's SDK rejects a call with: code, statusCode and
\* message (a sequence of characters), as isRetryableCosError reads them.
ProviderErrors ==
  { [code |-> "ETIMEDOUT", statusCode |-> 0, message |-> <<>>],
    [code |-> "SlowDown", statusCode |-> 0, message |-> <<>>],
    [code |-> "", statusCode |-> 503, message |-> <<>>],
    [code |-> "", statusCode |-> 0,
     message |-> <<"R", "e", "a", "d", " ", "T", "i", "m", "e", "o", "u", "t">>],
    [code |-> "AccessDenied", statusCode |-> 403,
     message |-> <<"A", "c", "c", "e", "s", "s", " ", "D", "e", "n", "i", "e",
                   "d">>],
    [code |-> "NoSuchBucket", statusCode |-> 404, message |-> <<>>] }

\* String.prototype.includes
includes(chars, fragment) ==
  \E k \in 0..(Len(chars) - Len(fragment)) :
    SubSeq(chars, k + 1, k + Len(fragment)) = fragment

\* isRetryableCosError: statusCode >= 500, a network error code, a transient
\* provider code, or a message that speaks of a timeout.
isRetryableCosError(error) ==
  \/ error.statusCode >= 500
  \/ error.code \in {"ETIMEDOUT", "ECONNRESET", "EAI_AGAIN", "ESOCKETTIMEDOUT"}
  \/ error.code \in {"RequestTimeout", "InternalError", "ServiceUnavailable",
                     "SlowDown", "NetworkingError"}
  \/ LET message == toLowerCase(error.message)
     IN  \/ includes(message, <<"t", "i", "m", "e", "o", "u", "t">>)
         \/ includes(message, <<"t", "i", "m", "e", "d", " ", "o", "u", "t">>)
         \/ includes(message, <<"s", "o", "c", "k", "e", "t", " ", "h", "a",
                                "n", "g", " ", "u", "p">>)

\* Mutant: the last attempt is given up one iteration early.
withRetryThrowsEarly(i, retries, error) ==
  i + 1 >= retries \/ ~isRetryableCosError(error)

\* withRetry's catch: the error is thrown on when this was the last attempt
\* or the error is not retryable.
withRetryThrows(i, retries, error) ==
  i >= retries \/ ~isRetryableCosError(error)

\* Mutant: the same delay after every failed attempt.
sleepDelayFixed(baseDelay, i) == baseDelay

\* withRetry's sleep after the failed attempt i.
sleepDelay(baseDelay, i) == baseDelay * (i + 1)

\* ------------------------------------------------------ bundles in place
\* The archive of the bundle of a version, as `zip -r 100.zip 100` makes it,
\* and the name it is uploaded under.
bundleArchive(version) == {file(<<version, "/", "config.json">>)}
BundleFilenames ==
  {<<"1", "0", "0", ".", "z", "i", "p">>, <<"1", "0", "1", ".", "z", "i", "p">>}

\* ulayout before inspectArchiveLayout has returned.
NoLayout == [ok |-> FALSE, flatten |-> FALSE]

\* The tree of a bundle in place: what an upload of bundleArchive leaves.
bundleTree == {<<<<"config.json">>, FALSE>>}

\* ------------------------------------------------------------------ Init
\* The trees of a deployment whose bundles `versions` an operator has put in
\* place out of band: under the upload root and under the legacy prefix root
\* of the driver in use.
bundlesInPlace(d, versions) ==
  [r \in Roots |->
     IF r = (IF d = "cos" THEN localLegacyRoot ELSE cosLegacyRoot)
       THEN {} ELSE versions]

\* The keys under the bucket's prefixes when those bundles are in place: the
\* bundle's files under the legacy prefix of each version.
objectsInPlace(d, b) ==
  [r \in ObjectRoots |->
     [v \in Versions |->
        IF r = cosLegacyRoot /\ v \in d[cosLegacyRoot] THEN listFiles(b[v])
                                                       ELSE {}]]

\* After createServer: ensureStateFile has written the default document and
\* no request is running.  The deployment is fresh (nothing uploaded), or
\* one bundle is already in place while the other has never been uploaded.
Init ==
  /\ driver \in {"local", "cos"}
  /\ now = 1
  /\ lockFile = FALSE
  /\ stateFile = DEFAULT_STATE
  /\ tempFile = NoFile
  /\ \E versions \in {{}, {"101"}} :
       /\ dirs = bundlesInPlace(driver, versions)
       /\ bundle = [v \in Versions |->
                      IF v \in versions THEN bundleTree ELSE {}]
  /\ script = NoVersion
  /\ started = 0
  /\ applied = <<>>
  /\ apc = [p \in Appliers |-> "idle"]
  /\ aver = [p \in Appliers |-> NoVersion]
  /\ aact = [p \in Appliers |-> "publish"]
  /\ attempt = [p \in Appliers |-> 0]
  /\ handle = [p \in Appliers |-> FALSE]
  /\ astate = [p \in Appliers |-> DEFAULT_STATE]
  /\ anext = [p \in Appliers |-> DEFAULT_STATE]
  /\ aresult = [p \in Appliers |-> "none"]
  /\ upc = [u \in Uploaders |-> "idle"]
  /\ uver = [u \in Uploaders |-> NoVersion]
  /\ utemp = [u \in Uploaders |-> FALSE]
  /\ uzip = [u \in Uploaders |-> {}]
  /\ ulayout = [u \in Uploaders |-> NoLayout]
  /\ ustate = [u \in Uploaders |-> DEFAULT_STATE]
  /\ unext = [u \in Uploaders |-> DEFAULT_STATE]
  /\ uresult = [u \in Uploaders |-> "none"]
  /\ registryUnobserved
  /\ retryUnobserved
  /\ listingUnobserved
  /\ syncIdle
  /\ cosEnv = "mock"
  /\ objects = objectsInPlace(dirs, bundle)


\* ------------------------------------------------------------- lock file
\* Mutant: the lock file opened with 'w', which succeeds on an existing file.
openShared == TRUE

\* fs.open(lockPath, 'wx') succeeds exactly when the file does not exist.
openExclusive == ~lockFile

\* Mutant: the catch throws every error again as it is.
rethrowAll(code) == code

\* applyVersion's catch: LOCK_TIMEOUT becomes LOCK_BUSY, any other error is
\* thrown again as it is.
applyVersionCatch(code) == IF code = "LOCK_TIMEOUT" THEN "LOCK_BUSY" ELSE code

\* Mutant: the acquisition loop has no bound.
loopConditionAlways(attempts) == TRUE

\* The condition of withFileLock's loop: attempt < retries.
loopCondition(attempts) == attempts < LockRetries

\* Mutant: a caller that gives up removes the file it found.
lockFileBrokenAfterTimeout == FALSE

\* withFileLock without a handle after its loop: LOCK_TIMEOUT is thrown and
\* the file another caller made is left as it is.
lockFileAfterTimeout == lockFile

\* Mutant: the finally block closes the handle and leaves the file.
lockFileLeftBehind == lockFile

\* The finally block of withFileLock: handle.close(), fs.rm(lockPath, force).
lockFileAfterFinally == FALSE

\* --------------------------------------------- publish / switch requests
\* The locals of applyVersion and withFileLock go out of scope when the call
\* ends; the reply keeps the version and the outcome.
aClear(p) ==
  /\ astate' = [astate EXCEPT ![p] = DEFAULT_STATE]
  /\ anext' = [anext EXCEPT ![p] = DEFAULT_STATE]
  /\ aact' = [aact EXCEPT ![p] = "publish"]
  /\ attempt' = [attempt EXCEPT ![p] = 0]
  /\ handle' = [handle EXCEPT ![p] = FALSE]

\* handlePublishOrSwitch up to the call of applyVersion: platform and version
\* are well formed; the version must be in the listing, else 4004.
handlePublishOrSwitch(p, version, action) ==
  /\ apc[p] \in {"idle", "done"}
  /\ started < MaxRequests
  /\ started' = started + 1
  /\ aver' = [aver EXCEPT ![p] = version]
  /\ aact' = [aact EXCEPT ![p] = action]
  /\ attempt' = [attempt EXCEPT ![p] = 0]
  /\ handle' = [handle EXCEPT ![p] = FALSE]
  /\ IF version \in listAvailableVersions
       THEN /\ apc' = [apc EXCEPT ![p] = "acquire"]
            /\ aresult' = [aresult EXCEPT ![p] = "pending"]
       ELSE /\ apc' = [apc EXCEPT ![p] = "done"]
            /\ aresult' = [aresult EXCEPT ![p] = "VERSION_NOT_FOUND"]
  /\ UNCHANGED <<rVars, wVars, sVars, lVars, driver, now, fsVars, applied, astate, anext, uVars>>

\* withFileLock, one turn of the acquisition loop: open with 'wx'; on EEXIST
\* sleep and count the attempt; after `retries` failed attempts no handle is
\* set and LOCK_TIMEOUT is thrown (the finally block is not entered).
withFileLockAttempt(p) ==
  /\ apc[p] = "acquire"
  /\ attempt[p] < LockRetries
  /\ IF openExclusive
       THEN /\ lockFile' = TRUE
            /\ handle' = [handle EXCEPT ![p] = TRUE]
            /\ apc' = [apc EXCEPT ![p] = "list"]
            /\ UNCHANGED <<attempt, aresult>>
       ELSE /\ attempt' = [attempt EXCEPT ![p] = attempt[p] + 1]
            /\ IF loopCondition(attempt[p] + 1)
                 THEN UNCHANGED <<apc, aresult, lockFile>>
                 ELSE /\ apc' = [apc EXCEPT ![p] = "done"]
                      /\ aresult' = [aresult EXCEPT ![p] =
                                       applyVersionCatch("LOCK_TIMEOUT")]
                      /\ lockFile' = lockFileAfterTimeout
            /\ UNCHANGED handle
  /\ UNCHANGED <<rVars, wVars, sVars, lVars, driver, now, stateFile, tempFile, dirs, bundle, script,
                 started, applied, aver, aact, astate, anext, uVars>>

\* Mutant: no check inside the lock (the handler's earlier check is trusted).
availableUnchecked(version) == TRUE

\* available.includes(version), on the listing made inside the lock.
availableIncludes(version) == version \in listAvailableVersions

\* applyVersion inside the lock: the version must be in the listing.
applyVersionList(p) ==
  /\ apc[p] = "list"
  /\ IF availableIncludes(aver[p])
       THEN /\ apc' = [apc EXCEPT ![p] = "read"]
            /\ UNCHANGED aresult
       ELSE /\ apc' = [apc EXCEPT ![p] = "finally"]
            /\ aresult' = [aresult EXCEPT ![p] =
                             applyVersionCatch("VERSION_NOT_FOUND")]
  /\ UNCHANGED <<rVars, wVars, sVars, lVars, driver, now, fsVars, started, applied, aver, aact, attempt,
                 handle, astate, anext, uVars>>

\* Mutant: no short circuit.
isCurrentNever(state, version) == FALSE

\* state.currentVersion === version
isCurrent(state, version) == state.currentVersion = version

\* applyVersion inside the lock: readState, and the short circuit.
applyVersionRead(p) ==
  /\ apc[p] = "read"
  /\ astate' = [astate EXCEPT ![p] = readState]
  /\ IF isCurrent(readState, aver[p])
       THEN /\ apc' = [apc EXCEPT ![p] = "finally"]
            /\ aresult' = [aresult EXCEPT ![p] = "alreadyCurrent"]
       ELSE /\ apc' = [apc EXCEPT ![p] = "setRead"]
            /\ UNCHANGED aresult
  /\ UNCHANGED <<rVars, wVars, sVars, lVars, driver, now, fsVars, started, applied, aver, aact, attempt,
                 handle, anext, uVars>>

\* setCurrentVersion: readState again, build nextState with new Date().
setCurrentVersionRead(p) ==
  /\ apc[p] = "setRead"
  /\ astate' = [astate EXCEPT ![p] = readState]
  /\ anext' = [anext EXCEPT ![p] =
                 setCurrentVersionNext(readState, aver[p], aact[p], now)]
  /\ now' = now + 1
  /\ apc' = [apc EXCEPT ![p] = "setWrite"]
  /\ UNCHANGED <<rVars, wVars, sVars, lVars, driver, fsVars, started, applied, aver, aact, attempt,
                 handle, aresult, uVars>>

\* atomicWriteState, first half: writeFile(tempPath, normalized document).
setCurrentVersionWrite(p) ==
  /\ apc[p] = "setWrite"
  /\ tempFile' = <<normalizeState(anext[p])>>
  /\ apc' = [apc EXCEPT ![p] = "setRename"]
  /\ UNCHANGED <<rVars, wVars, sVars, lVars, driver, now, lockFile, stateFile, dirs, bundle, script,
                 started, applied, aver, aact, attempt, handle, astate, anext,
                 aresult, uVars>>

\* atomicWriteState, second half: rename(tempPath, statePath).  Every writer
\* uses the same tempPath, so the file may hold another writer's document, or
\* be gone (ENOENT) when another writer renamed it first.
setCurrentVersionRename(p) ==
  /\ apc[p] = "setRename"
  /\ IF tempFile # NoFile
       THEN /\ stateFile' = tempFile[1]
            /\ tempFile' = NoFile
            /\ applied' = Append(applied, <<aact[p], aver[p]>>)
            /\ aresult' = [aresult EXCEPT ![p] = "changed"]
       ELSE /\ aresult' = [aresult EXCEPT ![p] = applyVersionCatch("ENOENT")]
            /\ UNCHANGED <<stateFile, tempFile, applied>>
  /\ apc' = [apc EXCEPT ![p] = "finally"]
  /\ UNCHANGED <<rVars, wVars, sVars, lVars, driver, now, lockFile, dirs, bundle, script, started,
                 aver, aact, attempt, handle, astate, anext, uVars>>

\* withFileLock's finally block, then the handler's reply.
withFileLockFinally(p) ==
  /\ apc[p] = "finally"
  /\ lockFile' = lockFileAfterFinally
  /\ apc' = [apc EXCEPT ![p] = "done"]
  /\ aClear(p)
  /\ UNCHANGED <<rVars, wVars, sVars, lVars, driver, now, stateFile, tempFile, dirs, bundle, script,
                 started, applied, aver, aresult, uVars>>


\* ------------------------------------------------------- upload requests
uClear(u) ==
  /\ ustate' = [ustate EXCEPT ![u] = DEFAULT_STATE]
  /\ unext' = [unext EXCEPT ![u] = DEFAULT_STATE]

\* Mutant: the layout verdict is not looked at.
layoutRejectedNever(layout) == FALSE

\* extractZipToVersion: if (!layout.ok) throw ZIP_STRUCTURE_MISMATCH.
layoutRejected(layout) == ~layout.ok

\* Mutant: the staging directory is removed after the copy only, with no
\* finally block.
tempDirAfterReturn(failed) == failed

\* The finally block of extractZipToVersion: fs.rm(tempDir, {recursive,
\* force}), whether or not a step of the try block failed.
tempDirAfterFinally(failed) == FALSE

\* POST /admin/upload up to extractZipToVersion's try block, for platform
\* wxmini and a file part: the filename must parse to a version (else 4001);
\* the upload root is made and the file staged; AdmZip opens it and the
\* Inspector must accept its layout (else ZIP_STRUCTURE_MISMATCH, which the
\* handler's catch turns into 4002); mkdtemp makes the staging directory.
upload(u, fileName, zip) ==
  /\ upc[u] \in {"idle", "done"}
  /\ started < MaxRequests
  /\ started' = started + 1
  /\ LET version == parseVersionFromFilename(fileName)
         layout == inspectArchiveLayout(zip, version)
     IN  IF version = NoVersion
           THEN /\ uver' = [uver EXCEPT ![u] = NoVersion]
                /\ uzip' = [uzip EXCEPT ![u] = {}]
                /\ ulayout' = [ulayout EXCEPT ![u] = NoLayout]
                /\ uresult' = [uresult EXCEPT ![u] = "INVALID_VERSION_NAME"]
                /\ upc' = [upc EXCEPT ![u] = "done"]
                /\ utemp' = utemp
           ELSE /\ uver' = [uver EXCEPT ![u] = version]
                /\ uzip' = [uzip EXCEPT ![u] = zip]
                /\ ulayout' = [ulayout EXCEPT ![u] = layout]
                /\ IF layoutRejected(layout)
                     THEN /\ uresult' = [uresult EXCEPT ![u] =
                                           "ZIP_STRUCTURE_MISMATCH"]
                          /\ upc' = [upc EXCEPT ![u] = "done"]
                          /\ utemp' = utemp
                     ELSE /\ uresult' = [uresult EXCEPT ![u] = "pending"]
                          /\ upc' = [upc EXCEPT ![u] = "extractRm"]
                          /\ utemp' = [utemp EXCEPT ![u] = TRUE]
  /\ ucalls' = [ucalls EXCEPT ![u] = 0]
  /\ UNCHANGED <<rVars, wVars, lVars, cosEnv, objects, uattempt, ukeys, ufiles,
                 driver, now, fsVars, applied, aVars, ustate, unext>>

\* Mutant: the destination is not removed before the copy.
fsRmKept(tree) == tree

\* fs.rm(dir, {recursive, force}): nothing of the tree is left.
fsRm(tree) == {}

\* extractZipToVersion: zip.extractAllTo(tempDir), fs.rm(destDir).
extractZipToVersionRm(u) ==
  /\ upc[u] = "extractRm"
  /\ dirs' = rmTree(getUploadRoot, uver[u])
  /\ bundle' = [bundle EXCEPT ![uver[u]] = fsRm(@)]
  /\ upc' = [upc EXCEPT ![u] = "extractCp"]
  /\ UNCHANGED <<rVars, wVars, sVars, lVars, driver, now, lockFile, stateFile,
                 tempFile, script, started, applied, aVars, utemp, uver, uzip,
                 ulayout, ustate, unext, uresult>>

\* Mutant: the handler goes from the extraction to recordUpload.
syncUploadedVersionSkipped == FALSE

\* syncUploadedVersion does nothing unless the driver is cos.
syncUploadedVersion == driver = "cos"

\* fs.cp(src, dest, {recursive, force}): the entries of src are in dest, over
\* what dest had at the same paths; what else dest had stays.
fsCp(src, dest) ==
  src \cup {e \in dest : \A x \in src : x[1] # e[1]}

\* Where the handler goes when extractZipToVersion has returned.
afterExtract ==
  IF ~syncUploadedVersion THEN "recordRead"
  ELSE IF cosEnv = "mock" THEN "syncRm"
  ELSE "cosClient"

\* extractZipToVersion: fs.mkdir(destDir), fs.cp(sourceDir, destDir), and
\* the finally block.
extractZipToVersionCp(u) ==
  /\ upc[u] = "extractCp"
  /\ dirs' = cpTree(getUploadRoot, uver[u])
  /\ bundle' = [bundle EXCEPT ![uver[u]] =
                  fsCp(sourceDir(uzip[u], uver[u], ulayout[u]), @)]
  /\ utemp' = [utemp EXCEPT ![u] = tempDirAfterFinally(FALSE)]
  /\ upc' = [upc EXCEPT ![u] = afterExtract]
  /\ UNCHANGED <<rVars, wVars, sVars, lVars, driver, now, lockFile, stateFile,
                 tempFile, script, started, applied, aVars, uver, uzip,
                 ulayout, ustate, unext, uresult>>

\* syncToCosMock: fs.rm(legacyRoot).
syncToCosRm(u) ==
  /\ upc[u] = "syncRm"
  /\ dirs' = rmTree(cosLegacyRoot, uver[u])
  /\ objects' = [objects EXCEPT ![cosLegacyRoot][uver[u]] = fsRm(@)]
  /\ upc' = [upc EXCEPT ![u] = "syncCp"]
  /\ UNCHANGED <<rVars, wVars, lVars, cosEnv, uattempt, ukeys, ufiles, ucalls,
                 driver, now, lockFile, stateFile, tempFile, bundle, script,
                 started, applied, aVars, utemp, uver, uzip, ulayout, ustate, unext,
                 uresult>>

\* syncToCosMock: fs.mkdir, fs.cp(sourceDir, legacyRoot); sourceDir is the
\* bundle directory under the upload root, as it is now.
syncToCosCp(u) ==
  /\ upc[u] = "syncCp"
  /\ dirs' = cpTree(cosLegacyRoot, uver[u])
  /\ objects' = [objects EXCEPT ![cosLegacyRoot][uver[u]] =
                   @ \cup listFiles(bundle[uver[u]])]
  /\ upc' = [upc EXCEPT ![u] = "recordRead"]
  /\ UNCHANGED <<rVars, wVars, lVars, cosEnv, uattempt, ukeys, ufiles, ucalls,
                 driver, now, lockFile, stateFile, tempFile, bundle, script,
                 started, applied, aVars, utemp, uver, uzip, ulayout, ustate, unext,
                 uresult>>

\* The handler's catch: the request ends with the error's code.
uThrow(u, code) ==
  /\ uresult' = [uresult EXCEPT ![u] = code]
  /\ upc' = [upc EXCEPT ![u] = "done"]
  /\ uattempt' = [uattempt EXCEPT ![u] = 0]
  /\ ukeys' = [ukeys EXCEPT ![u] = {}]
  /\ ufiles' = [ufiles EXCEPT ![u] = {}]

\* extractZipToVersion throws inside its try block: extractAllTo or fs.rm
\* fails (the destination keeps any part of what it had), or fs.mkdir or
\* fs.cp fails (the destination has any part of the source tree); the finally
\* block runs before the error reaches the handler.
extractZipToVersionThrow(u) ==
  /\ upc[u] \in {"extractRm", "extractCp"}
  /\ IF upc[u] = "extractRm"
       THEN /\ \E rest \in SUBSET bundle[uver[u]] :
                 bundle' = [bundle EXCEPT ![uver[u]] = rest]
            /\ dirs' = dirs
       ELSE \E part \in SUBSET sourceDir(uzip[u], uver[u], ulayout[u]),
               made \in BOOLEAN :
              /\ part # {} => made
              /\ bundle' = [bundle EXCEPT ![uver[u]] = part]
              /\ dirs' = IF made THEN cpTree(getUploadRoot, uver[u]) ELSE dirs
  /\ utemp' = [utemp EXCEPT ![u] = tempDirAfterFinally(TRUE)]
  /\ uThrow(u, "INTERNAL")
  /\ UNCHANGED <<rVars, wVars, lVars, cosEnv, objects, ucalls, driver, now,
                 lockFile, stateFile, tempFile, script, started, applied,
                 aVars, uver, uzip, ulayout, ustate, unext>>

\* Mutant: the client is made without looking at the configuration.
cosConfigMissingNever == FALSE

\* createCosClient: secretId, secretKey, bucket and region must all be set.
cosConfigMissing == cosEnv = "unconfigured"

\* syncToCosReal: createCosClient throws COS_CONFIG_MISSING, or returns the
\* client.
createCosClient(u) ==
  /\ upc[u] = "cosClient"
  /\ IF cosConfigMissing
       THEN uThrow(u, "COS_CONFIG_MISSING")
       ELSE /\ upc' = [upc EXCEPT ![u] = "cosList"]
            /\ uattempt' = [uattempt EXCEPT ![u] = 0]
            /\ UNCHANGED <<uresult, ukeys, ufiles>>
  /\ UNCHANGED <<rVars, wVars, lVars, cosEnv, objects, ucalls, driver, now,
                 fsVars, started, applied, aVars, utemp, uver, uzip, ulayout, ustate,
                 unext>>

\* The versions with a key under the legacy prefix: what a scan discovers.
discovered(objs) == {v \in Versions : objs[cosLegacyRoot][v] # {}}

\* A remote call's attempt failed with `error`: withRetry throws it on, or
\* sleeps and tries again.
retryOrThrow(u, error) ==
  IF withRetryThrows(uattempt[u], COS_RETRY_COUNT, error)
    THEN uThrow(u, "INTERNAL")
    ELSE /\ uattempt' = [uattempt EXCEPT ![u] = @ + 1]
         /\ UNCHANGED <<upc, uresult, ukeys, ufiles>>

\* Mutant: the keys are listed under a prefix that holds none.
staleKeysNone(objs, version) == {}

\* The keys under the version's legacy prefix, `${legacyPrefixRoot}/${version}/`.
staleKeys(objs, version) == objs[cosLegacyRoot][version]

\* syncToCosReal, listAllKeysByPrefix: one attempt of cos.getBucket under
\* withRetry; the keys under the version's prefix come in one page (they are
\* fewer than MaxKeys).  Without keys deleteKeys returns at once.
listAllKeysByPrefix(u) ==
  /\ upc[u] = "cosList"
  /\ ucalls' = [ucalls EXCEPT ![u] = @ + 1]
  /\ \/ /\ ukeys' = [ukeys EXCEPT ![u] = staleKeys(objects, uver[u])]
        /\ upc' = [upc EXCEPT ![u] =
                     IF staleKeys(objects, uver[u]) = {} THEN "cosFiles"
                                                         ELSE "cosDelete"]
        /\ uattempt' = [uattempt EXCEPT ![u] = 0]
        /\ UNCHANGED <<uresult, ufiles>>
     \/ \E error \in ProviderErrors : retryOrThrow(u, error)
  /\ UNCHANGED <<rVars, wVars, lVars, cosEnv, objects, driver, now, fsVars,
                 started, applied, aVars, utemp, uver, uzip, ulayout, ustate, unext>>

\* syncToCosReal, deleteKeys: one attempt of cos.deleteMultipleObject under
\* withRetry, for the one chunk the stale keys make.
deleteKeys(u) ==
  /\ upc[u] = "cosDelete"
  /\ ucalls' = [ucalls EXCEPT ![u] = @ + 1]
  /\ \/ /\ objects' = [objects EXCEPT ![cosLegacyRoot][uver[u]] = @ \ ukeys[u]]
        /\ dirs' = [dirs EXCEPT ![cosLegacyRoot] = discovered(objects')]
        /\ upc' = [upc EXCEPT ![u] = "cosFiles"]
        /\ uattempt' = [uattempt EXCEPT ![u] = 0]
        /\ UNCHANGED <<uresult, ukeys, ufiles>>
     \/ /\ \E error \in ProviderErrors : retryOrThrow(u, error)
        /\ UNCHANGED <<objects, dirs>>
  /\ UNCHANGED <<rVars, wVars, lVars, cosEnv, driver, now, lockFile, stateFile,
                 tempFile, bundle, script, started, applied, aVars, utemp, uver,
                 uzip, ulayout, ustate, unext>>

\* syncToCosReal: listFiles(sourceDir), the bundle directory as it is now.
syncToCosRealFiles(u) ==
  /\ upc[u] = "cosFiles"
  /\ ufiles' = [ufiles EXCEPT ![u] = listFiles(bundle[uver[u]])]
  /\ ukeys' = [ukeys EXCEPT ![u] = {}]
  /\ upc' = [upc EXCEPT ![u] =
               IF listFiles(bundle[uver[u]]) = {} THEN "recordRead"
                                                  ELSE "cosPut"]
  /\ UNCHANGED <<rVars, wVars, lVars, cosEnv, objects, uattempt, ucalls,
                 driver, now, fsVars, started, applied, aVars, utemp, uver, uzip,
                 ulayout, ustate, unext, uresult>>

\* syncToCosReal: one attempt of cos.putObject under withRetry, for the next
\* file of the list; its key is the version's prefix and the relative path.
putObject(u) ==
  /\ upc[u] = "cosPut"
  /\ ucalls' = [ucalls EXCEPT ![u] = @ + 1]
  /\ LET rel == CHOOSE f \in ufiles[u] : TRUE
     IN  \/ /\ objects' = [objects EXCEPT ![cosLegacyRoot][uver[u]] =
                             @ \cup {rel}]
            /\ dirs' = [dirs EXCEPT ![cosLegacyRoot] = discovered(objects')]
            /\ ufiles' = [ufiles EXCEPT ![u] = @ \ {rel}]
            /\ upc' = [upc EXCEPT ![u] =
                         IF ufiles[u] = {rel} THEN "recordRead" ELSE "cosPut"]
            /\ uattempt' = [uattempt EXCEPT ![u] = 0]
            /\ UNCHANGED <<uresult, ukeys>>
         \/ /\ \E error \in ProviderErrors : retryOrThrow(u, error)
            /\ UNCHANGED <<objects, dirs>>
  /\ UNCHANGED <<rVars, wVars, lVars, cosEnv, driver, now, lockFile, stateFile,
                 tempFile, bundle, script, started, applied, aVars, utemp, uver,
                 uzip, ulayout, ustate, unext>>

\* recordUpload: readState, build nextState with new Date().
recordUploadRead(u) ==
  /\ upc[u] = "recordRead"
  /\ ustate' = [ustate EXCEPT ![u] = readState]
  /\ unext' = [unext EXCEPT ![u] = recordUploadNext(readState, uver[u], now)]
  /\ now' = now + 1
  /\ upc' = [upc EXCEPT ![u] = "recordWrite"]
  /\ UNCHANGED <<rVars, wVars, sVars, lVars, driver, fsVars, started, applied, aVars, utemp, uver, uzip, ulayout, uresult>>

\* atomicWriteState, first half: writeFile(tempPath, normalized document).
recordUploadWrite(u) ==
  /\ upc[u] = "recordWrite"
  /\ tempFile' = <<normalizeState(unext[u])>>
  /\ upc' = [upc EXCEPT ![u] = "recordRename"]
  /\ UNCHANGED <<rVars, wVars, sVars, lVars, driver, now, lockFile, stateFile, dirs, bundle, script,
                 started, applied, aVars, utemp, uver, uzip, ulayout, ustate, unext, uresult>>

\* atomicWriteState, second half: rename(tempPath, statePath), then the reply:
\* uploaded / uploaded_overwrite by the overwrite flag upsertVersion returned.
recordUploadRename(u) ==
  /\ upc[u] = "recordRename"
  /\ IF tempFile # NoFile
       THEN /\ stateFile' = tempFile[1]
            /\ tempFile' = NoFile
            /\ uresult' = [uresult EXCEPT ![u] =
                 IF hasVersion(ustate[u].versions, uver[u])
                   THEN "uploaded_overwrite" ELSE "uploaded"]
       ELSE /\ uresult' = [uresult EXCEPT ![u] = "ENOENT"]
            /\ UNCHANGED <<stateFile, tempFile>>
  /\ upc' = [upc EXCEPT ![u] = "done"]
  /\ uClear(u)
  /\ UNCHANGED <<rVars, wVars, sVars, lVars, driver, now, lockFile, dirs, bundle, script, started,
                 applied, aVars, utemp, uver, uzip, ulayout>>

\* -------------------------------------------------------- publish-sync.sh
\* The operator's script for the local driver: [ -d SRC ], rm -rf DST.
publishSyncRm(version) ==
  /\ driver = "local"
  /\ script = NoVersion
  /\ version \in dirs[getUploadRoot]
  /\ dirs' = rmTree(localLegacyRoot, version)
  /\ script' = version
  /\ UNCHANGED <<rVars, wVars, sVars, lVars, driver, now, lockFile, stateFile, tempFile, bundle,
                 started, applied, aVars, uVars>>

\* cp -a SRC DST; under set -e a failed cp ends the script.
publishSyncCp ==
  /\ script # NoVersion
  /\ dirs' = IF script \in dirs[getUploadRoot]
               THEN cpTree(localLegacyRoot, script) ELSE dirs
  /\ script' = NoVersion
  /\ UNCHANGED <<rVars, wVars, sVars, lVars, driver, now, lockFile, stateFile, tempFile, bundle,
                 started, applied, aVars, uVars>>

\* ------------------------------------------------------------------ Next
applierStep(p) ==
  \/ \E version \in Versions, action \in ApplyActions :
       handlePublishOrSwitch(p, version, action)
  \/ withFileLockAttempt(p)
  \/ applyVersionList(p)
  \/ applyVersionRead(p)
  \/ setCurrentVersionRead(p)
  \/ setCurrentVersionWrite(p)
  \/ setCurrentVersionRename(p)
  \/ withFileLockFinally(p)

uploaderStep(u) ==
  \/ \E fileName \in BundleFilenames :
       upload(u, fileName, bundleArchive(parseVersionFromFilename(fileName)))
  \/ extractZipToVersionRm(u)
  \/ extractZipToVersionCp(u)
  \/ syncToCosRm(u)
  \/ syncToCosCp(u)
  \/ recordUploadRead(u)
  \/ recordUploadWrite(u)
  \/ recordUploadRename(u)

operatorStep ==
  \/ \E version \in Versions : publishSyncRm(version)
  \/ publishSyncCp

Next ==
  \/ \E p \in Appliers : applierStep(p)
  \/ \E u \in Uploaders : uploaderStep(u)
  \/ operatorStep

Spec == Init /\ [][Next]_vars

\* The steps of a publish/switch request once the handler has called
\* applyVersion: each is the continuation of an awaited file operation or
\* timer, which the event loop runs when the operation has completed.
applyVersionStep(p) ==
  \/ withFileLockAttempt(p)
  \/ applyVersionList(p)
  \/ applyVersionRead(p)
  \/ setCurrentVersionRead(p)
  \/ setCurrentVersionWrite(p)
  \/ setCurrentVersionRename(p)
  \/ withFileLockFinally(p)

\* The process of a caller stops inside the critical section (it is killed,
\* or the host goes down): the finally block of withFileLock is not run, the
\* request gets no reply, and the locals of the call are gone.
processStop(p) ==
  /\ apc[p] \in {"list", "read", "setRead", "setWrite", "setRename", "finally"}
  /\ apc' = [apc EXCEPT ![p] = "stopped"]
  /\ aClear(p)
  /\ UNCHANGED <<rVars, wVars, sVars, lVars, driver, now, fsVars, started,
                 applied, aver, aresult, uVars>>

\* Publish/switch and upload requests served by processes of which any may
\* stop inside the critical section; the other callers belong to another
\* instance, or to the process started next.
NextStale ==
  \/ \E p \in Appliers : applierStep(p)
  \/ \E u \in Uploaders : uploaderStep(u)
  \/ \E p \in Appliers : processStop(p)

SpecStale == Init /\ [][NextStale]_vars

\* The requests with a process that keeps running: no call is left waiting
\* for ever on an operation that has completed.
SpecLive ==
  /\ Init
  /\ [][Next]_vars
  /\ \A p \in Appliers : WF_vars(applyVersionStep(p))


\* Publish/switch requests alone, on bundles an operator has put in place:
\* every version is under the upload root and under the listing root.
InitPublish ==
  /\ driver = "local"
  /\ now = 1
  /\ lockFile = FALSE
  /\ stateFile = DEFAULT_STATE
  /\ tempFile = NoFile
  /\ dirs = bundlesInPlace(driver, Versions)
  /\ bundle = [v \in Versions |-> bundleTree]
  /\ script = NoVersion
  /\ started = 0
  /\ applied = <<>>
  /\ apc = [p \in Appliers |-> "idle"]
  /\ aver = [p \in Appliers |-> NoVersion]
  /\ aact = [p \in Appliers |-> "publish"]
  /\ attempt = [p \in Appliers |-> 0]
  /\ handle = [p \in Appliers |-> FALSE]
  /\ astate = [p \in Appliers |-> DEFAULT_STATE]
  /\ anext = [p \in Appliers |-> DEFAULT_STATE]
  /\ aresult = [p \in Appliers |-> "none"]
  /\ upc = [u \in Uploaders |-> "idle"]
  /\ uver = [u \in Uploaders |-> NoVersion]
  /\ utemp = [u \in Uploaders |-> FALSE]
  /\ uzip = [u \in Uploaders |-> {}]
  /\ ulayout = [u \in Uploaders |-> NoLayout]
  /\ ustate = [u \in Uploaders |-> DEFAULT_STATE]
  /\ unext = [u \in Uploaders |-> DEFAULT_STATE]
  /\ uresult = [u \in Uploaders |-> "none"]
  /\ registryUnobserved
  /\ retryUnobserved
  /\ listingUnobserved
  /\ syncIdle
  /\ cosEnv = "mock"
  /\ objects = objectsInPlace(dirs, bundle)

NextPublish ==
  \/ \E p \in Appliers : applierStep(p)
  \/ operatorStep

SpecPublish == InitPublish /\ [][NextPublish]_vars

\* ------------------------------------------------- the registry as a file
\* JavaScript values, by typeof and Array.isArray.
undefined == [t |-> "undefined"]
null == [t |-> "null"]
str(s) == [t |-> "string", s |-> s]
num(n) == [t |-> "number", n |-> n]
arr(a) == [t |-> "array", a |-> a]
obj(o) == [t |-> "object", o |-> o]
\* An error thrown instead of a value returned.
thrown(e) == [t |-> "thrown", e |-> e]

\* raw?.key
get(raw, key) ==
  IF raw.t = "object" /\ key \in DOMAIN raw.o THEN raw.o[key] ELSE undefined

\* Date.prototype.toISOString of the instants the model's clock takes.
toISOString(t) ==
  <<"2024-01-01T00:00:01.000Z", "2024-01-01T00:00:02.000Z",
    "2024-01-01T00:00:03.000Z", "2024-01-01T00:00:04.000Z">>[t]

\* A version record as the object the code builds.
versionObject(v) ==
  obj(IF "publishedAt" \in DOMAIN v
        THEN [version |-> str(v.version),
              uploadedAt |-> str(toISOString(v.uploadedAt)),
              publishedAt |-> str(toISOString(v.publishedAt))]
        ELSE [version |-> str(v.version),
              uploadedAt |-> str(toISOString(v.uploadedAt))])

historyObject(h) ==
  obj([action |-> str(h.action), version |-> str(h.version),
       at |-> str(toISOString(h.at))])

\* A document of the request model as the object the code holds.
stateObject(state) ==
  obj([currentVersion |-> str(state.currentVersion),
       versions |-> arr([i \in 1..Len(state.versions) |->
                           versionObject(state.versions[i])]),
       history |-> arr([i \in 1..Len(state.history) |->
                          historyObject(state.history[i])])])

\* Mutant: the history is taken from the versions field's test.
normalizeStateNoHistory(raw) ==
  obj([currentVersion |-> IF get(raw, "currentVersion").t = "string"
                            THEN get(raw, "currentVersion") ELSE str(""),
       versions |-> IF get(raw, "versions").t = "array"
                      THEN get(raw, "versions") ELSE arr(<<>>),
       history |-> arr(<<>>)])

\* normalizeState on any value: each field is kept when it has its type and
\* replaced by '' or [] when not; no other field is kept.
normalizeStateOf(raw) ==
  obj([currentVersion |-> IF get(raw, "currentVersion").t = "string"
                            THEN get(raw, "currentVersion") ELSE str(""),
       versions |-> IF get(raw, "versions").t = "array"
                      THEN get(raw, "versions") ELSE arr(<<>>),
       history |-> IF get(raw, "history").t = "array"
                     THEN get(raw, "history") ELSE arr(<<>>)])

\* What JSON.stringify keeps of a value: a property whose value is undefined
\* is left out, an undefined array element becomes null.
RECURSIVE toJSON(_)
toJSON(value) ==
  CASE value.t = "object" ->
         obj([k \in {key \in DOMAIN value.o : value.o[key].t # "undefined"} |->
                toJSON(value.o[k])])
    [] value.t = "array" ->
         arr([i \in 1..Len(value.a) |->
                IF value.a[i].t = "undefined" THEN null
                                              ELSE toJSON(value.a[i])])
    [] OTHER -> value

\* A file's text is the serialization of a value, or text JSON.parse rejects
\* (an empty file, a truncated serialization).
JSONstringify(value) == [json |-> toJSON(value)]
Unparsable == {[junk |-> "empty"], [junk |-> "truncated"]}

\* Mutant: JSON.parse outside a try block.
JSONparseUncaught(text) ==
  IF "json" \in DOMAIN text THEN text.json ELSE thrown("SyntaxError")

\* readState's try { json = JSON.parse(text) } catch { json = DEFAULT_STATE }.
JSONparseOrDefault(text) ==
  IF "json" \in DOMAIN text THEN text.json ELSE stateObject(DEFAULT_STATE)

\* readState after ensureStateFile: readFile, parse, normalizeState.
readStateOf(text) ==
  LET json == JSONparseOrDefault(text)
  IN  IF json.t = "thrown" THEN json ELSE normalizeStateOf(json)

\* Mutant: writeFile on the live path.
writeFileInPlace == "statePath"

\* atomicWriteState's writeFile goes to tempPath.
writeFilePath == "tempPath"

\* The states the request code passes to atomicWriteState.
WrittenStates ==
  { stateObject(DEFAULT_STATE),
    stateObject(recordUploadNext(DEFAULT_STATE, "100", 1)),
    stateObject(setCurrentVersionNext(
                  recordUploadNext(DEFAULT_STATE, "100", 1), "100", "publish", 2)),
    stateObject(setCurrentVersionNext(DEFAULT_STATE, "101", "switch", 1)) }

\* Other values a caller may pass: an extra property, an undefined property,
\* no object at all.
OtherStates ==
  { obj([currentVersion |-> str("100"), versions |-> arr(<<>>),
         history |-> arr(<<>>), note |-> str("x")]),
    obj([currentVersion |-> str(""),
         versions |-> arr(<<obj([version |-> str("100"),
                                 uploadedAt |-> undefined])>>),
         history |-> arr(<<>>)]),
    null }

\* Values a hand-edited state.json may hold.
ForeignValues ==
  { null, num(7), str("100"), arr(<<>>),
    obj([currentVersion |-> num(100), versions |-> str("100"),
         history |-> null]),
    obj([currentVersion |-> str("100")]),
    obj([versions |-> arr(<<num(1)>>), history |-> obj([x |-> null])]) }

FileTexts ==
  Unparsable \cup
  {JSONstringify(value) : value \in WrittenStates \cup ForeignValues}

\* No request of the request model is running (the file-level specification
\* leaves that model alone).
noRequests ==
  /\ driver = "local"
  /\ now = 1
  /\ lockFile = FALSE
  /\ stateFile = DEFAULT_STATE
  /\ tempFile = NoFile
  /\ dirs = bundlesInPlace(driver, {})
  /\ bundle = [v \in Versions |-> {}]
  /\ script = NoVersion
  /\ started = 0
  /\ applied = <<>>
  /\ apc = [p \in Appliers |-> "idle"]
  /\ aver = [p \in Appliers |-> NoVersion]
  /\ aact = [p \in Appliers |-> "publish"]
  /\ attempt = [p \in Appliers |-> 0]
  /\ handle = [p \in Appliers |-> FALSE]
  /\ astate = [p \in Appliers |-> DEFAULT_STATE]
  /\ anext = [p \in Appliers |-> DEFAULT_STATE]
  /\ aresult = [p \in Appliers |-> "none"]
  /\ upc = [u \in Uploaders |-> "idle"]
  /\ uver = [u \in Uploaders |-> NoVersion]
  /\ utemp = [u \in Uploaders |-> FALSE]
  /\ uzip = [u \in Uploaders |-> {}]
  /\ ulayout = [u \in Uploaders |-> NoLayout]
  /\ ustate = [u \in Uploaders |-> DEFAULT_STATE]
  /\ unext = [u \in Uploaders |-> DEFAULT_STATE]
  /\ uresult = [u \in Uploaders |-> "none"]
  /\ listingUnobserved
  /\ syncIdle
  /\ cosEnv = "mock"
  /\ objects = objectsInPlace(dirs, bundle)

\* state.json is missing (first start), or holds a document the code wrote, or
\* anything an operator's edit left; no write is under way.
InitRegistry ==
  /\ noRequests
  /\ retryUnobserved
  /\ statePath \in {NoFile} \cup {<<text>> : text \in FileTexts}
  /\ tempPath = NoFile
  /\ rpc = "idle"
  /\ rop = "none"
  /\ rarg = null
  /\ rret = NoFile
  /\ rbefore = NoFile
  /\ rseen = NoFile
  /\ rwritten = NoFile

\* atomicWriteState(state) is called.
atomicWriteState(state) ==
  /\ rpc = "idle"
  /\ rop' = "write"
  /\ rarg' = state
  /\ rbefore' = <<statePath>>
  /\ rwritten' = NoFile
  /\ rret' = NoFile
  /\ rpc' = "writeFile"
  /\ UNCHANGED <<mVars, wVars, statePath, tempPath, rseen>>

\* fs.writeFile has opened the file and written part of the content.
writeFileOpen ==
  /\ rpc = "writeFile"
  /\ \E partial \in Unparsable :
       IF writeFilePath = "tempPath"
         THEN tempPath' = <<partial>> /\ UNCHANGED statePath
         ELSE statePath' = <<partial>> /\ UNCHANGED tempPath
  /\ rpc' = "writing"
  /\ UNCHANGED <<mVars, wVars, rop, rarg, rret, rbefore, rseen, rwritten>>

\* fs.writeFile has written JSON.stringify(normalizeState(state)).
writeFileClose ==
  /\ rpc = "writing"
  /\ LET content == JSONstringify(normalizeStateOf(rarg))
     IN  IF writeFilePath = "tempPath"
           THEN tempPath' = <<content>> /\ UNCHANGED statePath
           ELSE statePath' = <<content>> /\ UNCHANGED tempPath
  /\ rpc' = "rename"
  /\ UNCHANGED <<mVars, wVars, rop, rarg, rret, rbefore, rseen, rwritten>>

\* fs.rename(tempPath, statePath); atomicWriteState returns to its caller,
\* which is ensureStateFile inside readState or a request.
rename ==
  /\ rpc = "rename"
  /\ IF tempPath # NoFile
       THEN statePath' = tempPath /\ tempPath' = NoFile
       ELSE UNCHANGED <<statePath, tempPath>>
  /\ IF rop = "read"
       THEN /\ rpc' = "readFile"
            /\ UNCHANGED <<rop, rwritten>>
       ELSE /\ rpc' = "idle"
            /\ rop' = "none"
            /\ rwritten' = IF tempPath # NoFile THEN <<rarg>> ELSE NoFile
  /\ UNCHANGED <<mVars, wVars, rarg, rret, rbefore, rseen>>

\* readState is called: ensureStateFile's fs.access; when it fails the default
\* document is written through atomicWriteState.
ensureStateFile ==
  /\ rpc = "idle"
  /\ rop' = "read"
  /\ rret' = NoFile
  /\ rseen' = <<statePath, tempPath>>
  /\ IF statePath = NoFile
       THEN /\ rarg' = stateObject(DEFAULT_STATE)
            /\ rbefore' = <<statePath>>
            /\ rwritten' = NoFile
            /\ rpc' = "writeFile"
       ELSE /\ rpc' = "readFile"
            /\ UNCHANGED <<rarg, rbefore, rwritten>>
  /\ UNCHANGED <<mVars, wVars, statePath, tempPath>>

\* readState: fs.readFile, JSON.parse, normalizeState, return.
readFile ==
  /\ rpc = "readFile"
  /\ statePath # NoFile
  /\ rret' = <<readStateOf(statePath[1])>>
  /\ rpc' = "idle"
  /\ rop' = "none"
  /\ UNCHANGED <<mVars, wVars, statePath, tempPath, rarg, rbefore, rseen, rwritten>>

\* The process dies inside a call and is started again: what it held in
\* memory is gone, the files are as the last completed system call left them.
crash ==
  /\ rpc # "idle"
  /\ rpc' = "idle"
  /\ rop' = "none"
  /\ rret' = NoFile
  /\ rwritten' = NoFile
  /\ UNCHANGED <<mVars, wVars, statePath, tempPath, rarg, rbefore, rseen>>

NextRegistry ==
  \/ \E state \in WrittenStates \cup OtherStates : atomicWriteState(state)
  \/ writeFileOpen
  \/ writeFileClose
  \/ rename
  \/ ensureStateFile
  \/ readFile
  \/ crash

SpecRegistry == InitRegistry /\ [][NextRegistry]_vars

\* ------------------------------------------------- withRetry on its own
\* options.baseDelayMs: the default and another value.
BaseDelays == {250, 100}

\* withRetry(task, {retries, baseDelayMs}) has been called; the task is any
\* remote call: each attempt returns, or throws one of the provider's errors.
InitRetry ==
  /\ noRequests
  /\ registryUnobserved
  /\ wretries \in 0..MaxRetries
  /\ wbaseDelay \in BaseDelays
  /\ wi = 0
  /\ wpc = "task"
  /\ werror = NoFile
  /\ wattempts = <<>>
  /\ wslept = <<>>
  /\ wresult = "none"

\* One iteration of the loop: await task(); its value is returned, or its
\* error is caught and either thrown on or followed by a sleep.
withRetryTask ==
  /\ wpc = "task"
  /\ wi <= wretries
  /\ \/ /\ wattempts' = Append(wattempts, NoFile)
        /\ wresult' = "returned"
        /\ wpc' = "done"
        /\ UNCHANGED werror
     \/ \E error \in ProviderErrors :
          /\ wattempts' = Append(wattempts, <<error>>)
          /\ werror' = <<error>>
          /\ IF withRetryThrows(wi, wretries, error)
               THEN wresult' = "thrown" /\ wpc' = "done"
               ELSE wpc' = "sleep" /\ UNCHANGED wresult
  /\ UNCHANGED <<mVars, rVars, wretries, wbaseDelay, wi, wslept>>

\* await sleep(baseDelay * (i + 1)), then the loop's i++.
withRetrySleep ==
  /\ wpc = "sleep"
  /\ wslept' = Append(wslept, sleepDelay(wbaseDelay, wi))
  /\ wi' = wi + 1
  /\ wpc' = "task"
  /\ UNCHANGED <<mVars, rVars, wretries, wbaseDelay, werror, wattempts,
                 wresult>>

NextRetry == withRetryTask \/ withRetrySleep

SpecRetry == InitRetry /\ [][NextRetry]_vars

\* ------------------------------------------------- uploads of any file
\* The reply codes of the handlers.
ERROR_CODES ==
  [INVALID_VERSION_NAME |-> 4001, ZIP_STRUCTURE_MISMATCH |-> 4002,
   INVALID_PLATFORM |-> 4003, VERSION_NOT_FOUND |-> 4004,
   INVALID_REQUEST |-> 4005, LOCK_BUSY |-> 4006, FILE_TOO_LARGE |-> 4007,
   INTERNAL |-> 5000]

\* Filenames of the file part.
Filenames ==
  { <<"1", "0", "0", ".", "z", "i", "p">>,
    <<"1", "0", "0", ".", "Z", "I", "P">>,
    <<"a", "b", "c", ".", "z", "i", "p">>,
    <<"1", "0", "0", ".", "t", "a", "r">>,
    <<"1", "0", "0">>,
    <<"-", "1", ".", "z", "i", "p">>,
    <<"1", "a", ".", "z", "i", "p">>,
    <<"1", ".", "0", ".", "z", "i", "p">>,
    <<".", "z", "i", "p">>,
    <<"1", "0", "0", ".">>,
    <<>> }

\* Archives of the file part, by their entries.
Archives ==
  { {},
    {file(<<"100", "/", "config.json">>)},
    {directory(<<"100", "/">>), file(<<"100", "/", "config.json">>)},
    {directory(<<"100", "/">>)},
    {file(<<"/", "100", "/", "config.json">>)},
    {file(<<"100", "\\", "config.json">>)},
    {file(<<"100", "/", "config.json">>), file(<<"100", "/", "100", "/", "a.bin">>)},
    {file(<<"99", "/", "config.json">>)},
    {file(<<"config.json">>)},
    {file(<<"config.json">>), file(<<"100", "/", "a.bin">>)},
    {file(<<"config.json">>), file(<<"99", "/", "a.bin">>)},
    {file(<<"config.json">>), file(<<"100", "/", "a.bin">>),
     file(<<"assets", "/", "b.bin">>)},
    {file(<<"100", "/", "config.json">>), file(<<"assets", "/", "b.bin">>)},
    {directory(<<"100", "/">>), directory(<<"assets", "/">>)},
    {file(<<"100", "/", "config.json">>), directory(<<"__MACOSX", "/">>),
     file(<<"__MACOSX", "/", "._config.json">>)},
    {file(<<"__MACOSX", "/", "._config.json">>)},
    {directory(<<"/">>), file(<<"__MACOSX">>), directory(<<"__MACOSX", "\\">>)},
    {file(<<"config.json">>), file(<<"__MACOSX", "/", "._config.json">>)} }

\* The tree of a bundle put in place before, unlike any archive above.
oldTree == {<<<<"old.bin">>, FALSE>>}

\* After createServer, with nothing uploaded yet or with bundle 100 in place;
\* only upload requests arrive, with any filename and any archive.
InitUpload ==
  /\ driver \in {"local", "cos"}
  /\ now = 1
  /\ lockFile = FALSE
  /\ stateFile = DEFAULT_STATE
  /\ tempFile = NoFile
  /\ \E versions \in {{}, {"100"}} :
       /\ dirs = bundlesInPlace(driver, versions)
       /\ bundle = [v \in Versions |-> IF v \in versions THEN oldTree ELSE {}]
  /\ script = NoVersion
  /\ started = 0
  /\ applied = <<>>
  /\ apc = [p \in Appliers |-> "idle"]
  /\ aver = [p \in Appliers |-> NoVersion]
  /\ aact = [p \in Appliers |-> "publish"]
  /\ attempt = [p \in Appliers |-> 0]
  /\ handle = [p \in Appliers |-> FALSE]
  /\ astate = [p \in Appliers |-> DEFAULT_STATE]
  /\ anext = [p \in Appliers |-> DEFAULT_STATE]
  /\ aresult = [p \in Appliers |-> "none"]
  /\ upc = [u \in Uploaders |-> "idle"]
  /\ uver = [u \in Uploaders |-> NoVersion]
  /\ utemp = [u \in Uploaders |-> FALSE]
  /\ uzip = [u \in Uploaders |-> {}]
  /\ ulayout = [u \in Uploaders |-> NoLayout]
  /\ ustate = [u \in Uploaders |-> DEFAULT_STATE]
  /\ unext = [u \in Uploaders |-> DEFAULT_STATE]
  /\ uresult = [u \in Uploaders |-> "none"]
  /\ registryUnobserved
  /\ retryUnobserved
  /\ listingUnobserved
  /\ syncIdle
  /\ cosEnv \in (IF driver = "cos" THEN {"mock", "configured", "unconfigured"}
                                   ELSE {"mock"})
  /\ objects = objectsInPlace(dirs, bundle)

\* The file parts of the requests: a filename with an archive; a file whose
\* name does not parse is never opened, and stands here with no entries.
FileParts ==
  {part \in Filenames \X Archives :
     parseVersionFromFilename(part[1]) = NoVersion => part[2] = {}}

uploadStep(u) ==
  \/ \E part \in FileParts : upload(u, part[1], part[2])
  \/ extractZipToVersionRm(u)
  \/ extractZipToVersionCp(u)
  \/ extractZipToVersionThrow(u)
  \/ syncToCosRm(u)
  \/ syncToCosCp(u)
  \/ createCosClient(u)
  \/ listAllKeysByPrefix(u)
  \/ deleteKeys(u)
  \/ syncToCosRealFiles(u)
  \/ putObject(u)
  \/ recordUploadRead(u)
  \/ recordUploadWrite(u)
  \/ recordUploadRename(u)

\* One upload request at a time.
NextUpload == uploadStep(CHOOSE u \in Uploaders : TRUE)

SpecUpload == InitUpload /\ [][NextUpload]_vars

\* ------------------------------------------- listing and registration
\* Number(version), for the sort of the listing.
Number(version) == IF version = "100" THEN 100 ELSE 101

\* [...].sort((a, b) => Number(b) - Number(a)): descending by number.
RECURSIVE sortDescending(_)
sortDescending(versions) ==
  IF versions = {} THEN <<>>
  ELSE LET first == CHOOSE v \in versions :
                      \A w \in versions : Number(w) <= Number(v)
       IN  <<first>> \o sortDescending(versions \ {first})

\* new Map(state.versions.map((v) => [v.version, v])).get(version): the last
\* record of the version, or NoFile.
stateMapGet(state, version) ==
  LET at == {i \in 1..Len(state.versions) : state.versions[i].version = version}
  IN  IF at = {} THEN NoFile
      ELSE <<state.versions[CHOOSE i \in at : \A j \in at : j <= i]>>

\* item.uploadedAt || '' (and publishedAt): <<time>>, or <<>> for ''.
orEmpty(item, field) ==
  IF item # NoFile /\ field \in DOMAIN item[1] THEN <<item[1][field]>> ELSE <<>>

\* Mutant: the records of the registry are listed, whatever storage holds.
listedVersionsOfRegistry(state, available) ==
  sortDescending({state.versions[i].version : i \in 1..Len(state.versions)})

\* The versions the listing shows: discovered.map(...), the versions found in
\* storage and no other.
listedVersions(state, available) == sortDescending(available)

\* GET /admin/versions?platform=wxmini, first half: readState.
adminVersionsRead ==
  /\ lpc = "idle"
  /\ started < MaxRequests
  /\ started' = started + 1
  /\ lstate' = readState
  /\ lresult' = NoFile
  /\ lpc' = "list"
  /\ UNCHANGED <<rVars, wVars, sVars, driver, now, fsVars, applied, aVars,
                 uVars, gresult>>

\* GET /admin/versions, second half: listAvailableVersions and the response:
\* one item per version discovered, with the timestamps of its record.
adminVersionsList ==
  /\ lpc = "list"
  /\ LET shown == listedVersions(lstate, listAvailableVersions)
     IN  lresult' =
           <<[currentVersion |-> lstate.currentVersion,
              versions |->
                [k \in 1..Len(shown) |->
                   [version |-> shown[k],
                    uploadedAt |->
                      orEmpty(stateMapGet(lstate, shown[k]), "uploadedAt"),
                    publishedAt |->
                      orEmpty(stateMapGet(lstate, shown[k]), "publishedAt")]],
              history |-> lstate.history]>>
  /\ lpc' = "idle"
  /\ UNCHANGED <<rVars, wVars, sVars, driver, now, fsVars, started, applied,
                 aVars, uVars, lstate, gresult>>

\* What a registration leaves in the registry: a record for the version.
registerNext(state, version, t) ==
  [currentVersion |-> state.currentVersion,
   versions |-> IF hasVersion(state.versions, version)
                  THEN state.versions
                  ELSE Append(state.versions,
                              [version |-> version, uploadedAt |-> t]),
   history |-> state.history]

\* The registration entrypoint, for platform wxmini and a numeric version:
\* it succeeds when the version is in the storage listing, and fails with
\* VERSION_NOT_FOUND when not.
register(version) ==
  /\ started < MaxRequests
  /\ started' = started + 1
  /\ IF version \in listAvailableVersions
       THEN /\ gresult' = <<version, "registered">>
            /\ stateFile' = registerNext(readState, version, now)
            /\ now' = now + 1
       ELSE /\ gresult' = <<version, "VERSION_NOT_FOUND">>
            /\ UNCHANGED <<stateFile, now>>
  /\ UNCHANGED <<rVars, wVars, sVars, driver, lockFile, tempFile, dirs, bundle,
                 script, applied, aVars, uVars, lpc, lstate, lresult>>

\* Publish/switch requests, uploads of the two bundles, the operator's
\* script, listing and registration requests.
NextAdmin ==
  \/ \E p \in Appliers : applierStep(p)
  \/ \E u \in Uploaders : uploaderStep(u)
  \/ operatorStep
  \/ adminVersionsRead
  \/ adminVersionsList
  \/ \E version \in Versions : register(version)

SpecAdmin == Init /\ [][NextAdmin]_vars

\* ================================================================ claims
\* The positions of an applier between its creation of the lock file and its
\* removal of it.
InLock == {"list", "read", "setRead", "setWrite", "setRename", "finally"}

Inside == {p \in Appliers : apc[p] \in InLock}

\* C1. Mutual exclusion: in every reachable state at most one applyVersion
\* caller is between its exclusive creation of the lock file and its removal
\* of it, and the file exists while a caller is there.
C1_MutualExclusion ==
  /\ Cardinality(Inside) <= 1
  /\ Inside # {} => lockFile

\* One caller is inside while another has been refused the file.
C1_Witness ==
  \E p, q \in Appliers :
    /\ p # q
    /\ apc[p] = "setWrite"
    /\ apc[q] = "acquire"
    /\ attempt[q] >= 1

\* The <<action, version>> of each history entry.
labels(history) ==
  [i \in 1..Len(history) |-> <<history[i].action, history[i].version>>]

\* C2. Serializability of publish/switch: no write falls between a caller's
\* reads of the registry and its own write (the document it read is still the
\* live one); the history holds exactly one entry per setCurrentVersion that
\* returned, in the order of their writes; and currentVersion is the target
\* of the last of them.
C2_Serializable ==
  /\ \A p \in Appliers :
       apc[p] \in {"setRead", "setWrite", "setRename"} => astate[p] = stateFile
  /\ labels(stateFile.history) = applied
  /\ stateFile.currentVersion =
       IF applied = <<>> THEN "" ELSE applied[Len(applied)][2]

\* Two calls for different targets overlapped (one waited for the lock while
\* the other held it) and both changed the registry.
C2_Witness ==
  \E p, q \in Appliers :
    /\ p # q
    /\ apc[p] = "done" /\ apc[q] = "finally"
    /\ aresult[p] = "changed" /\ aresult[q] = "changed"
    /\ aver[p] # aver[q]
    /\ attempt[q] >= 1
    /\ Len(stateFile.history) = 2

\* C3. Idempotent publish: a call that finds its version already current
\* inside the lock returns alreadyCurrent, and from that read to its return
\* it changes neither the live document nor the temporary file.
C3_IdempotentPublish ==
  [][\A p \in Appliers :
       /\ (apc[p] = "read" /\ apc'[p] # "read"
             /\ stateFile.currentVersion = aver[p])
            => /\ apc'[p] = "finally"
               /\ aresult'[p] = "alreadyCurrent"
               /\ stateFile' = stateFile
               /\ tempFile' = tempFile
       /\ (apc[p] = "finally" /\ apc'[p] # "finally"
             /\ aresult[p] = "alreadyCurrent")
            => /\ apc'[p] = "done"
               /\ aresult'[p] = "alreadyCurrent"
               /\ stateFile' = stateFile
               /\ tempFile' = tempFile]_vars

\* A call for the current version has returned alreadyCurrent.
C3_Witness ==
  \E p \in Appliers :
    /\ apc[p] = "done"
    /\ aresult[p] = "alreadyCurrent"
    /\ stateFile.currentVersion = aver[p]

\* C4. Lock release on every exit path: the lock file exists only while a
\* caller is inside; once the caller that created it has finished, by a
\* return or by an error, the file is gone.
C4_LockReleased == lockFile => Inside # {}

\* A call that held the lock has failed with a registry write error (the
\* rename inside setCurrentVersion), and the file is gone.
C4_Witness ==
  /\ ~lockFile
  /\ \E p \in Appliers :
       /\ apc[p] = "done"
       /\ aresult[p] = "ENOENT"


\* C5. Lock timeout: a caller that finds the lock file at its last attempt too
\* fails with LOCK_BUSY, never with the raw LOCK_TIMEOUT; the step that fails
\* so has set no handle (no check ran) and leaves the registry, the temporary
\* file and the holder's lock file as they are.
C5_LockTimeout ==
  [][\A p \in Appliers :
       /\ (apc[p] = "acquire" /\ lockFile /\ attempt[p] = LockRetries - 1
             /\ attempt'[p] # attempt[p])
            => /\ apc'[p] = "done"
               /\ aresult'[p] = "LOCK_BUSY"
       /\ (aresult[p] # "LOCK_BUSY" /\ aresult'[p] = "LOCK_BUSY")
            => /\ ~handle'[p]
               /\ attempt'[p] = LockRetries
               /\ lockFile /\ lockFile'
               /\ stateFile' = stateFile
               /\ tempFile' = tempFile
               /\ applied' = applied
       /\ aresult'[p] # "LOCK_TIMEOUT"]_vars

\* A caller has failed as busy while the holder is still inside with its file.
C5_Witness ==
  \E p, q \in Appliers :
    /\ apc[p] = "done"
    /\ aresult[p] = "LOCK_BUSY"
    /\ apc[q] \in InLock
    /\ lockFile

\* C6. Existence is re-verified inside the lock: a caller whose version is
\* absent from the listing at the check made inside the lock fails with
\* VERSION_NOT_FOUND, and from that check to its return it changes neither the
\* live document nor the temporary file.
C6_VerifiedInsideLock ==
  [][\A p \in Appliers :
       /\ (apc[p] = "list" /\ apc'[p] # "list"
             /\ aver[p] \notin listAvailableVersions)
            => /\ apc'[p] = "finally"
               /\ aresult'[p] = "VERSION_NOT_FOUND"
               /\ stateFile' = stateFile
               /\ tempFile' = tempFile
       /\ (apc[p] = "finally" /\ apc'[p] # "finally"
             /\ aresult[p] = "VERSION_NOT_FOUND")
            => /\ apc'[p] = "done"
               /\ aresult'[p] = "VERSION_NOT_FOUND"
               /\ stateFile' = stateFile
               /\ tempFile' = tempFile]_vars

\* A call that passed the handler's check and took the lock has failed with
\* VERSION_NOT_FOUND for a version that has a record in the registry.
C6_Witness ==
  \E p \in Appliers :
    /\ apc[p] = "finally"
    /\ handle[p]
    /\ aresult[p] = "VERSION_NOT_FOUND"
    /\ hasVersion(stateFile.versions, aver[p])

\* No request is running and the operator's script is not copying.
Quiet ==
  /\ \A p \in Appliers : apc[p] \in {"idle", "done"}
  /\ \A u \in Uploaders : upc[u] \in {"idle", "done"}
  /\ script = NoVersion

\* C7. End-to-end upload then publish: when the only thing done so far is one
\* successful upload of V (currentVersion still empty, V has a record), a
\* publish of V that follows finds V in the storage listing and goes on to
\* applyVersion.
C7_UploadThenPublish ==
  [][\A p \in Appliers, v \in Versions :
       (/\ Quiet
        /\ started = 1
        /\ labels(stateFile.history) = << <<"upload", v>> >>
        /\ handlePublishOrSwitch(p, v, "publish"))
         => /\ stateFile.currentVersion = ""
            /\ hasVersion(stateFile.versions, v)
            /\ apc'[p] = "acquire"]_vars

\* C8. Registry invariant: the persisted currentVersion is the empty string
\* or the identifier of a record in versions.
C8_CurrentIsKnown ==
  \/ stateFile.currentVersion = ""
  \/ hasVersion(stateFile.versions, stateFile.currentVersion)

\* A publish of a version that had no record yet has been persisted while the
\* upload of a version is about to write the registry.
C8_Witness ==
  /\ stateFile.currentVersion # ""
  /\ stateFile.history[1].action \in ApplyActions
  /\ \E u \in Uploaders : upc[u] = "recordWrite"

isPrefix(a, b) == Len(a) <= Len(b) /\ SubSeq(b, 1, Len(a)) = a

\* C9. History is append-only: each persisted history is the previous one with
\* entries added at the end, and every entry's action is one of upload,
\* upload_overwrite, publish, switch.
C9_HistoryAppendOnly ==
  [][/\ isPrefix(stateFile.history, stateFile'.history)
     /\ \A i \in 1..Len(stateFile'.history) :
          stateFile'.history[i].action \in
            {"upload", "upload_overwrite", "publish", "switch"}]_vars

\* C10. The current pointer is decided only by publish/switch: the write of
\* recordUpload (the rename of its own document) never changes the persisted
\* currentVersion.
C10_UploadKeepsCurrent ==
  [][\A u \in Uploaders :
       (upc[u] = "recordRename" /\ upc'[u] = "done"
          /\ tempFile = <<unext[u]>>)
         => stateFile'.currentVersion = stateFile.currentVersion]_vars

\* The version identifiers of the records, in order.
identifiers(versions) == [i \in 1..Len(versions) |-> versions[i].version]

unique(versions) ==
  \A i, j \in 1..Len(versions) :
    versions[i].version = versions[j].version => i = j

\* C11. Unique version records: no two records of the persisted document (nor
\* of a document a writer has built or put in the temporary file) have the
\* same version identifier; a re-upload or a publish of a version that has a
\* record keeps the records' identifiers and order as they were read.
C11_UniqueVersionRecords ==
  /\ unique(stateFile.versions)
  /\ tempFile # NoFile => unique(tempFile[1].versions)
  /\ \A u \in Uploaders :
       upc[u] \in {"recordWrite", "recordRename"} =>
         /\ unique(unext[u].versions)
         /\ hasVersion(ustate[u].versions, uver[u]) =>
              identifiers(unext[u].versions) = identifiers(ustate[u].versions)
  /\ \A p \in Appliers :
       apc[p] \in {"setWrite", "setRename"} =>
         /\ unique(anext[p].versions)
         /\ hasVersion(astate[p].versions, aver[p]) =>
              identifiers(anext[p].versions) = identifiers(astate[p].versions)

\* A version has been uploaded twice and has one record, stamped by the
\* second upload.
C11_Witness ==
  /\ Len(stateFile.history) = 2
  /\ stateFile.history[2].action = "upload_overwrite"
  /\ Len(stateFile.versions) = 1
  /\ stateFile.versions[1].uploadedAt = stateFile.history[2].at

\* A value readState may return: an object of exactly the three fields, with
\* a string currentVersion and arrays versions and history.
wellFormed(value) ==
  /\ value.t = "object"
  /\ DOMAIN value.o = {"currentVersion", "versions", "history"}
  /\ value.o.currentVersion.t = "string"
  /\ value.o.versions.t = "array"
  /\ value.o.history.t = "array"

\* C12. Crash-safe registry write: from the call of atomicWriteState on, and
\* after a crash at any of its steps, the live file is the complete file it
\* was before the call or the complete serialization of the new document; a
\* read that follows returns a well-formed document, and a read that found
\* the live file absent (the temporary file present or not) returns the
\* default document.
C12_CrashSafeWrite ==
  /\ rbefore # NoFile =>
       statePath \in {rbefore[1], <<JSONstringify(normalizeStateOf(rarg))>>}
  /\ rret # NoFile =>
       /\ wellFormed(rret[1])
       /\ rseen[1] = NoFile => rret[1] = stateObject(DEFAULT_STATE)

\* A read has returned the default document after it found the temporary
\* file of a write that crashed before its rename, and no live file.
C12_Witness ==
  /\ rret = <<stateObject(DEFAULT_STATE)>>
  /\ rseen[1] = NoFile
  /\ rseen[2] # NoFile
  /\ "json" \in DOMAIN rseen[2][1]

\* C13. Self-healing read: readState returns a value (it throws no error
\* because of the file's content); the value has a string currentVersion and
\* arrays versions and history; and it is the default document when the live
\* file was missing or unparsable.
C13_SelfHealingRead ==
  rret # NoFile =>
    /\ rret[1].t # "thrown"
    /\ wellFormed(rret[1])
    /\ (\/ rseen[1] = NoFile
        \/ rseen[1] \in {<<text>> : text \in Unparsable})
         => rret[1] = stateObject(DEFAULT_STATE)

\* A read of an unparsable live file has returned the default document.
C13_Witness ==
  /\ rret = <<stateObject(DEFAULT_STATE)>>
  /\ rseen[1] = <<[junk |-> "truncated"]>>

\* A document: well formed and made of JSON data only.
isDocument(value) == wellFormed(value) /\ toJSON(value) = value

\* C14. Registry round-trip: a readState that follows a completed
\* atomicWriteState(D) of a document D, with no write in between, returns a
\* value equal to D.
C14_RoundTrip ==
  (rwritten # NoFile /\ rret # NoFile /\ isDocument(rwritten[1]))
    => rret[1] = rwritten[1]

\* A document with a current version, a record and two history entries has
\* been written and read back.
C14_Witness ==
  /\ rwritten # NoFile
  /\ rret = rwritten
  /\ isDocument(rwritten[1])
  /\ Len(rret[1].o.history.a) = 2
  /\ rret[1].o.currentVersion = str("100")

\* The usable entries of an archive, as <<path, is a directory>>: the path is
\* the entry name's segments, a name that ends with a separator is a
\* directory, and entries without a path or under __MACOSX are left out.
usableEntries(zip) ==
  LET path(e) == SelectSeq(e.entryName, LAMBDA c : c \notin Separators)
      dir(e) == \/ e.isDirectory
                \/ e.entryName[Len(e.entryName)] \in Separators
  IN  {<<path(e), dir(e)>> :
         e \in {x \in zip : /\ path(x) # <<>>
                            /\ path(x)[1] # "__MACOSX"}}

\* A root file: a file entry of exactly one segment.
rootFiles(zip) == {e \in usableEntries(zip) : ~e[2] /\ Len(e[1]) = 1}

\* The top-level segments of the entries that are not root files.
topLevelFolders(zip) == {e[1][1] : e \in usableEntries(zip) \ rootFiles(zip)}

\* The uploaders whose archive the Inspector has looked at.
Inspected == {u \in Uploaders : uver[u] # NoVersion}

\* C15. Single wrapping folder: for an archive whose usable entries share
\* exactly one top-level segment and have no root file, the Inspector returns
\* ok=true, flatten=true when the folder is named as the version, and
\* ok=false when it is not.
C15_SingleWrappingFolder ==
  \A u \in Inspected :
    (Cardinality(topLevelFolders(uzip[u])) = 1 /\ rootFiles(uzip[u]) = {})
      => IF topLevelFolders(uzip[u]) = {uver[u]}
           THEN ulayout[u] = [ok |-> TRUE, flatten |-> TRUE]
           ELSE ~ulayout[u].ok

\* An archive with the directory marker 100/ and a file under it, uploaded as
\* version 100, has been found flattenable.
C15_Witness ==
  \E u \in Inspected :
    /\ uver[u] = "100"
    /\ usableEntries(uzip[u]) =
         {<<<<"100">>, TRUE>>, <<<<"100", "config.json">>, FALSE>>}
    /\ ulayout[u] = [ok |-> TRUE, flatten |-> TRUE]

\* C16. Multiple top-level folders: for an archive whose usable entries have
\* two or more top-level segments and no root file, the Inspector returns
\* ok=true, flatten=false and the upload goes on to extraction.
C16_MultipleTopFolders ==
  \A u \in Inspected :
    (Cardinality(topLevelFolders(uzip[u])) >= 2 /\ rootFiles(uzip[u]) = {})
      => /\ ulayout[u] = [ok |-> TRUE, flatten |-> FALSE]
         /\ uresult[u] # "ZIP_STRUCTURE_MISMATCH"

\* C17. A root file disqualifies flattening: for every archive with a usable
\* file entry at its root, whatever top-level folders it has, the Inspector
\* returns ok=true, flatten=false.
C17_RootFileNoFlatten ==
  \A u \in Inspected :
    rootFiles(uzip[u]) # {} => ulayout[u] = [ok |-> TRUE, flatten |-> FALSE]

\* An archive with a root file and one folder named as the version has been
\* accepted without flattening.
C17_Witness ==
  \E u \in Inspected :
    /\ rootFiles(uzip[u]) # {}
    /\ topLevelFolders(uzip[u]) = {uver[u]}
    /\ ulayout[u] = [ok |-> TRUE, flatten |-> FALSE]

\* The archive's only top-level entry is a folder named `version`.
onlyTopLevelFolder(zip, version) ==
  /\ zip # {}
  /\ \A e \in zip :
       LET path == SelectSeq(e.entryName, LAMBDA c : c \notin Separators)
       IN  /\ path # <<>>
           /\ path[1] = version
           /\ (Len(path) = 1 => e.isDirectory)

\* The files of an archive, by their paths.
filePaths(zip) ==
  {SelectSeq(e.entryName, LAMBDA c : c \notin Separators) :
     e \in {x \in zip : ~x.isDirectory}}

\* C18 as stated. Flatten correctness: when the archive's only top-level
\* entry is a folder named V and it is uploaded as V, the copy into
\* {uploadRoot}/V puts every file V/p of the archive at p, and leaves no
\* path that begins with V under {uploadRoot}/V.
C18_FlattenNoNestedVersion ==
  [][\A u \in Uploaders :
       (/\ upc[u] = "extractCp" /\ upc'[u] \notin {"extractCp", "done"}
        /\ onlyTopLevelFolder(uzip[u], uver[u]))
         => /\ \A path \in filePaths(uzip[u]) :
                 <<Tail(path), FALSE>> \in bundle'[uver[u]]
            /\ \A e \in bundle'[uver[u]] : e[1][1] # uver[u]]_vars

\* C18, amended. The copy puts every file V/p of the archive at p, and a
\* path that begins with V is under {uploadRoot}/V only when the archive
\* holds it under V/V.
C18_FlattenCorrect ==
  [][\A u \in Uploaders :
       (/\ upc[u] = "extractCp" /\ upc'[u] \notin {"extractCp", "done"}
        /\ onlyTopLevelFolder(uzip[u], uver[u]))
         => /\ \A path \in filePaths(uzip[u]) :
                 <<Tail(path), FALSE>> \in bundle'[uver[u]]
            /\ \A e \in bundle'[uver[u]] :
                 e[1][1] = uver[u] =>
                   \E x \in uzip[u] :
                     SelectSeq(x.entryName, LAMBDA c : c \notin Separators)
                       = <<uver[u]>> \o e[1]]_vars

\* The archive 100/config.json uploaded as version 100 has been copied over
\* the bundle that was in place: config.json is at the bundle's root.
C18_Witness ==
  \E u \in Uploaders :
    /\ upc[u] \in {"syncRm", "recordRead"}
    /\ uver[u] = "100"
    /\ onlyTopLevelFolder(uzip[u], uver[u])
    /\ bundle["100"] = {<<<<"config.json">>, FALSE>>}

\* C19. Rejection before mutation: an upload whose archive the Inspector
\* rejects fails with ZIP_STRUCTURE_MISMATCH (4002) in the step that inspects
\* it, and that step changes no bundle directory, nothing in the secondary
\* store and neither the registry document nor its temporary file.
C19_RejectionBeforeMutation ==
  [][\A u \in Uploaders, part \in FileParts :
       (/\ upload(u, part[1], part[2])
        /\ uver'[u] # NoVersion
        /\ ~ulayout'[u].ok)
         => /\ uresult'[u] = "ZIP_STRUCTURE_MISMATCH"
            /\ ERROR_CODES[uresult'[u]] = 4002
            /\ upc'[u] = "done"
            /\ dirs' = dirs
            /\ bundle' = bundle
            /\ stateFile' = stateFile
            /\ tempFile' = tempFile]_vars

\* The archive 99/config.json uploaded as 100.zip has been rejected, and the
\* bundle of version 100 that was in place is as it was.
C19_Witness ==
  \E u \in Uploaders :
    /\ upc[u] = "done"
    /\ uresult[u] = "ZIP_STRUCTURE_MISMATCH"
    /\ uver[u] = "100"
    /\ uzip[u] = {file(<<"99", "/", "config.json">>)}
    /\ "100" \in dirs[getUploadRoot]
    /\ bundle["100"] = oldTree
    /\ stateFile = DEFAULT_STATE

\* The stem of a filename of more than four characters, and its last four.
stem(fileName) == SubSeq(fileName, 1, Len(fileName) - 4)
extension(fileName) ==
  SubSeq(fileName, Len(fileName) - 3, Len(fileName))

allDigits(chars) ==
  chars # <<>> /\ \A k \in 1..Len(chars) : chars[k] \in Digits

\* C20 as stated. Filename validation: a filename is accepted exactly when
\* its extension is .zip and its stem is made of ASCII digits only; a rejected
\* filename yields INVALID_VERSION_NAME (4001) and ends the request before any
\* extraction, sync or registry write.
C20_FilenameValidationExact ==
  [][\A u \in Uploaders, part \in FileParts :
       upload(u, part[1], part[2]) =>
         LET fileName == part[1]
             accepted == /\ Len(fileName) > 4
                         /\ extension(fileName) = <<".", "z", "i", "p">>
                         /\ allDigits(stem(fileName))
         IN  /\ accepted <=> uresult'[u] # "INVALID_VERSION_NAME"
             /\ ~accepted =>
                  /\ ERROR_CODES[uresult'[u]] = 4001
                  /\ upc'[u] = "done"
                  /\ dirs' = dirs /\ bundle' = bundle
                  /\ stateFile' = stateFile /\ tempFile' = tempFile]_vars

\* C20, amended. The extension is .zip in any letter case.
C20_FilenameValidation ==
  [][\A u \in Uploaders, part \in FileParts :
       upload(u, part[1], part[2]) =>
         LET fileName == part[1]
             accepted == /\ Len(fileName) > 4
                         /\ extension(fileName)[1] = "."
                         /\ extension(fileName)[2] \in {"z", "Z"}
                         /\ extension(fileName)[3] \in {"i", "I"}
                         /\ extension(fileName)[4] \in {"p", "P"}
                         /\ allDigits(stem(fileName))
         IN  /\ accepted <=> uresult'[u] # "INVALID_VERSION_NAME"
             /\ ~accepted =>
                  /\ ERROR_CODES[uresult'[u]] = 4001
                  /\ upc'[u] = "done"
                  /\ dirs' = dirs /\ bundle' = bundle
                  /\ stateFile' = stateFile /\ tempFile' = tempFile]_vars

\* A request has been refused for its filename after an upload of version
\* 100 had been recorded; the bundle and the registry are as that upload left
\* them.
C20_Witness ==
  \E u \in Uploaders :
    /\ upc[u] = "done"
    /\ uresult[u] = "INVALID_VERSION_NAME"
    /\ uver[u] = NoVersion
    /\ Len(stateFile.history) = 1
    /\ bundle["100"] # {}

\* The effective source tree of an upload: the files of the archive, those
\* under the version folder with that folder removed when the layout is
\* flattened.
effectiveSource(u) ==
  IF ulayout[u].flatten
    THEN {Tail(path) : path \in {x \in filePaths(uzip[u]) :
                                   Len(x) >= 2 /\ x[1] = uver[u]}}
    ELSE filePaths(uzip[u])

\* The files under {uploadRoot}/version.
bundleFiles(tree) == {e[1] : e \in {x \in tree : ~x[2]}}

\* The step that ends an extraction with success.
extracted(u) ==
  /\ upc[u] = "extractCp"
  /\ upc'[u] \in {"syncRm", "cosClient", "recordRead"}

\* C21. Full-bundle replace: when an extraction of version V has succeeded,
\* the files under {uploadRoot}/V are exactly the files of the effective
\* source tree of the new archive; no file of an earlier upload of V is left.
C21_FullBundleReplace ==
  [][\A u \in Uploaders :
       extracted(u) => bundleFiles(bundle'[uver[u]]) = effectiveSource(u)]_vars

\* Version 100, which had old.bin in place, has been extracted from an
\* archive with two files, and old.bin is gone.
C21_Witness ==
  \E u \in Uploaders :
    /\ upc[u] \in {"syncRm", "cosClient", "recordRead"}
    /\ uver[u] = "100"
    /\ Cardinality(effectiveSource(u)) = 2
    /\ bundleFiles(bundle["100"]) = effectiveSource(u)
    /\ stateFile = DEFAULT_STATE

\* C22. No partial-state exposure of the live bundle: every step of an
\* extraction of version V, a failing one too, leaves {uploadRoot}/V as it
\* was (the complete previous bundle) or holding the complete new bundle.
C22_NoPartialExposure ==
  [][\A u \in Uploaders :
       upc[u] \in {"extractRm", "extractCp"}
         => \/ bundle'[uver[u]] = bundle[uver[u]]
            \/ bundleFiles(bundle'[uver[u]]) = effectiveSource(u)]_vars

\* The provider errors that are transient: timeouts, 5xx replies and the
\* provider's rate-limit code; access and not-found errors are not.
TransientErrors ==
  {e \in ProviderErrors : e.code \notin {"AccessDenied", "NoSuchBucket"}}

\* C23. Remote retry attempt count: a withRetry call with bound R ends at
\* the first attempt that succeeds or fails with a non-transient error, and at
\* attempt R+1 at the latest: N transient failures (N <= R) and a success
\* give success after exactly N+1 attempts; a non-transient failure is thrown
\* at once; R+1 transient failures give the last error after R+1 attempts.
C23_RetryAttempts ==
  wpc = "done" =>
    LET n == Len(wattempts)
    IN  /\ n >= 1
        /\ n <= wretries + 1
        /\ \A k \in 1..(n - 1) :
             wattempts[k] # NoFile /\ wattempts[k][1] \in TransientErrors
        /\ wattempts[n] = NoFile => wresult = "returned"
        /\ wattempts[n] # NoFile =>
             /\ wresult = "thrown"
             /\ werror = wattempts[n]
             /\ wattempts[n][1] \in TransientErrors => n = wretries + 1

\* With R = 2, two transient failures were followed by a success at the
\* third attempt.
C23_Witness ==
  /\ wpc = "done"
  /\ wretries = 2
  /\ Len(wattempts) = 3
  /\ wattempts[3] = NoFile
  /\ wresult = "returned"

\* The step that ends a storage sync with success: the copy of the mock, the
\* last put, or the file list when the bundle has no file to put.
synced(u) ==
  /\ upc[u] \in {"syncCp", "cosFiles", "cosPut"}
  /\ upc'[u] = "recordRead"

\* C24. Deterministic mirror: when a sync of version V (to the bucket or to
\* the mock) has succeeded, the keys under each prefix the sync writes for V
\* are exactly the files of the source tree by their relative paths; no key
\* of an earlier upload of V is left.
C24_DeterministicMirror ==
  [][\A u \in Uploaders :
       synced(u) =>
         \A prefixRoot \in versionPrefixes :
           objects'[prefixRoot][uver[u]] = bundleFiles(bundle[uver[u]])]_vars

\* Version 100, whose prefix in the bucket held old.bin, has been synced by a
\* list, a delete and two puts at least; the prefix holds the two new files.
C24_Witness ==
  \E u \in Uploaders :
    /\ upc[u] = "recordRead"
    /\ cosEnv = "configured"
    /\ uver[u] = "100"
    /\ ucalls[u] >= 4
    /\ Cardinality(bundleFiles(bundle["100"])) = 2
    /\ <<"old.bin">> \notin objects[cosLegacyRoot]["100"]
    /\ objects[cosLegacyRoot]["100"] = bundleFiles(bundle["100"])

\* An upload has been answered with success.
uploaded(u) ==
  upc[u] = "done" /\ uresult[u] \in {"uploaded", "uploaded_overwrite"}

\* C25. Dual-prefix mirror: with the remote driver (real or mock), a
\* successful upload of version V leaves the bundle's files under the primary
\* prefix (platform and V) and under the legacy prefix (V only).
C25_DualPrefixMirror ==
  \A u \in Uploaders :
    (driver = "cos" /\ uploaded(u)) =>
      /\ objects[cosPrimaryRoot][uver[u]] = bundleFiles(bundle[uver[u]])
      /\ objects[cosLegacyRoot][uver[u]] = bundleFiles(bundle[uver[u]])

\* C26. Missing remote configuration: with the remote driver, no mock and a
\* configuration value absent, an upload that reaches the sync fails with
\* COS_CONFIG_MISSING; no remote list, delete or put is ever issued, the
\* bucket is untouched and no upload is recorded in the registry.
C26_ConfigMissing ==
  [][(driver = "cos" /\ cosEnv = "unconfigured") =>
       \A u \in Uploaders :
         /\ ucalls'[u] = 0
         /\ objects' = objects
         /\ stateFile' = stateFile
         /\ tempFile' = tempFile
         /\ extracted(u) => upc'[u] = "cosClient"
         /\ upc[u] = "cosClient" =>
              /\ upc'[u] = "done"
              /\ uresult'[u] = "COS_CONFIG_MISSING"]_vars

\* An upload of 100.zip has been extracted and has then failed for the
\* missing configuration, with no remote call and nothing recorded.
C26_Witness ==
  \E u \in Uploaders :
    /\ driver = "cos"
    /\ cosEnv = "unconfigured"
    /\ upc[u] = "done"
    /\ uresult[u] = "COS_CONFIG_MISSING"
    /\ ucalls[u] = 0
    /\ bundleFiles(bundle["100"]) = effectiveSource(u)
    /\ effectiveSource(u) # {}
    /\ stateFile = DEFAULT_STATE

\* C29. Upload ordering: the registry document changes in an upload only by
\* the step that persists the history entry upload or upload_overwrite of its
\* version V, and then the extraction of V and the storage sync of V have
\* completed; an upload in which either fails leaves the document unchanged.
C29_UploadOrdering ==
  [][stateFile' # stateFile =>
       \E u \in Uploaders :
         /\ upc[u] = "recordRename"
         /\ upc'[u] = "done"
         /\ uresult'[u] \in {"uploaded", "uploaded_overwrite"}
         /\ LET entry == stateFile'.history[Len(stateFile'.history)]
            IN  /\ Len(stateFile'.history) = Len(stateFile.history) + 1
                /\ entry.version = uver[u]
                /\ entry.action \in {"upload", "upload_overwrite"}
         /\ bundleFiles(bundle[uver[u]]) = effectiveSource(u)
         /\ driver = "cos" =>
              \A prefixRoot \in versionPrefixes :
                objects[prefixRoot][uver[u]] = bundleFiles(bundle[uver[u]])]_vars

\* A first upload of 100.zip has been recorded; a second one has failed in
\* its sync after a retry, and the document still holds the first entry only.
C29_Witness ==
  \E u \in Uploaders :
    /\ cosEnv = "configured"
    /\ upc[u] = "done"
    /\ uresult[u] = "INTERNAL"
    /\ ucalls[u] >= 2
    /\ Len(stateFile.history) = 1
    /\ stateFile.history[1].action = "upload"

\* The records of a document other than those of `version`, in their order.
otherRecords(state, version) ==
  SelectSeq(state.versions, LAMBDA v : v.version # version)

\* A record for `version` is in the document.
recorded(state, version) ==
  \E i \in 1..Len(state.versions) : state.versions[i].version = version

\* C30. recordUpload(V) returns true exactly when the document it read has a
\* record for V; the document it writes has the history it read and one more
\* entry, upload_overwrite when it returns true and upload when false, a
\* record for V whose uploadedAt is the time of the call, and every other
\* record as it was.
C30_RecordUpload ==
  [][\A u \in Uploaders :
       /\ (upc[u] = "recordRead" /\ upc'[u] = "recordWrite") =>
            LET read == ustate'[u]
                written == unext'[u]
                entry == written.history[Len(written.history)]
            IN  /\ read = stateFile
                /\ Len(written.history) = Len(read.history) + 1
                /\ SubSeq(written.history, 1, Len(read.history)) = read.history
                /\ entry.version = uver[u]
                /\ entry.action = IF recorded(read, uver[u])
                                    THEN "upload_overwrite" ELSE "upload"
                /\ \E i \in 1..Len(written.versions) :
                     /\ written.versions[i].version = uver[u]
                     /\ written.versions[i].uploadedAt = now
                /\ otherRecords(written, uver[u]) = otherRecords(read, uver[u])
       /\ (upc[u] = "recordRename" /\ uresult'[u] = "uploaded_overwrite")
            => recorded(ustate[u], uver[u])
       /\ (upc[u] = "recordRename" /\ uresult'[u] = "uploaded")
            => ~recorded(ustate[u], uver[u])]_vars

\* recordUpload(101) has read a document in which 101 is published, and is
\* about to write its record with a new uploadedAt and the entry
\* upload_overwrite.
C30_Witness ==
  \E u \in Uploaders :
    /\ upc[u] = "recordWrite"
    /\ uver[u] = "101"
    /\ ustate[u].currentVersion = "101"
    /\ recorded(ustate[u], "101")
    /\ unext[u].history[Len(unext[u].history)].action = "upload_overwrite"

\* The versions with a tree under the legacy prefix root that the driver in
\* use lists: what is discoverable in storage.
discoverable ==
  dirs[IF driver = "cos" THEN cosLegacyRoot ELSE localLegacyRoot]

listedOf(result) == [k \in 1..Len(result.versions) |-> result.versions[k].version]

\* The record of the version in the registry read, as a set (empty if none).
recordsOf(state, version) ==
  {state.versions[i] : i \in {j \in 1..Len(state.versions) :
                                 state.versions[j].version = version}}

\* C28 as stated. Listing is a union: the listing returns every version the
\* registry it read knows and every version found in storage, so a version
\* with a record is listed also when storage does not hold it.
C28_ListingUnion ==
  lresult # NoFile =>
    \A i \in 1..Len(lstate.versions) :
      \E k \in 1..Len(lresult[1].versions) :
        lresult[1].versions[k].version = lstate.versions[i].version

\* C28, amended. Listing follows storage: the listing returns exactly the
\* versions discoverable in storage, in descending order, each with the
\* timestamps of its record when the registry read has one and with empty
\* strings when it has none, together with the current pointer and the
\* history of the registry; a version that is recorded but not discoverable
\* is not listed; the listing changes no file, directory or object.
C28_ListingFollowsStorage ==
  [][(adminVersionsRead \/ adminVersionsList) =>
       /\ UNCHANGED <<stateFile, tempFile, lockFile, dirs, bundle, objects>>
       /\ adminVersionsList =>
            LET result == lresult'[1]
            IN  /\ {result.versions[k].version :
                      k \in 1..Len(result.versions)} = discoverable
                /\ \A k \in 1..Len(result.versions) :
                     /\ \A j \in 1..(k - 1) :
                          Number(result.versions[j].version)
                            > Number(result.versions[k].version)
                     /\ LET records ==
                              recordsOf(lstate, result.versions[k].version)
                        IN  IF records = {}
                              THEN /\ result.versions[k].uploadedAt = <<>>
                                   /\ result.versions[k].publishedAt = <<>>
                              ELSE \E record \in records :
                                     /\ result.versions[k].uploadedAt =
                                          IF "uploadedAt" \in DOMAIN record
                                            THEN <<record.uploadedAt>>
                                            ELSE <<>>
                                     /\ result.versions[k].publishedAt =
                                          IF "publishedAt" \in DOMAIN record
                                            THEN <<record.publishedAt>>
                                            ELSE <<>>
                /\ result.currentVersion = lstate.currentVersion
                /\ result.history = lstate.history]_vars

\* A listing made when the registry and storage disagree both ways: version
\* 100 is recorded and not in storage, version 101 is in storage with no
\* record.
C28_Witness ==
  /\ lresult # NoFile
  /\ lpc = "idle"
  /\ recorded(lstate, "100")
  /\ ~recorded(lstate, "101")
  /\ listedOf(lresult[1]) = <<"101">>
  /\ lresult[1].versions[1].uploadedAt = <<>>

\* The history with the action labels taken out.
unlabelled(history) ==
  [i \in 1..Len(history) |-> [version |-> history[i].version,
                              at |-> history[i].at]]

\* C31. setCurrentVersion(V, action) builds, from the document it reads, a
\* document whose currentVersion is V, in which V has a record with
\* publishedAt set to the time of the call, whose history is the history read
\* and one more entry carrying the action and V, and whose records of other
\* versions are those read; the document is what it hands to
\* atomicWriteState; called with the other label it would build the same
\* document but for the label of that entry.
C31_SetCurrent ==
  [][\A p \in Appliers :
       /\ (apc[p] = "setRead" /\ apc'[p] = "setWrite") =>
            LET read == astate'[p]
                written == anext'[p]
                entry == written.history[Len(written.history)]
            IN  /\ read = stateFile
                /\ written.currentVersion = aver[p]
                /\ \E i \in 1..Len(written.versions) :
                     /\ written.versions[i].version = aver[p]
                     /\ written.versions[i].publishedAt = now
                /\ Len(written.history) = Len(read.history) + 1
                /\ SubSeq(written.history, 1, Len(read.history)) = read.history
                /\ entry = [action |-> aact[p], version |-> aver[p], at |-> now]
                /\ otherRecords(written, aver[p]) = otherRecords(read, aver[p])
                /\ \A other \in ApplyActions :
                     LET alt == setCurrentVersionNext(read, aver[p], other, now)
                     IN  /\ alt.currentVersion = written.currentVersion
                         /\ alt.versions = written.versions
                         /\ unlabelled(alt.history) = unlabelled(written.history)
                         /\ alt.history[Len(alt.history)].action = other
       /\ (apc[p] = "setWrite" /\ apc'[p] = "setRename") =>
            tempFile' = <<anext[p]>>]_vars

\* A switch to 101 has read a document that records an upload of 100, and is
\* about to write one that keeps that record and that history entry.
C31_Witness ==
  \E p \in Appliers :
    /\ apc[p] = "setWrite"
    /\ aact[p] = "switch"
    /\ aver[p] = "101"
    /\ recorded(astate[p], "100")
    /\ astate[p].history # <<>>
    /\ anext[p].currentVersion = "101"
    /\ otherRecords(anext[p], "101") = astate[p].versions


\* The history has an entry for `version` with one of the `actions`.
hasEntry(history, version, actions) ==
  \E i \in 1..Len(history) :
    history[i].version = version /\ history[i].action \in actions

\* C32. Timestamp provenance: in every state of the registry a record has
\* uploadedAt only if the history records an upload of its version, and has
\* publishedAt only if the history records a publish or switch to it.
C32_TimestampProvenance ==
  \A i \in 1..Len(stateFile.versions) :
    LET record == stateFile.versions[i]
    IN  /\ "uploadedAt" \in DOMAIN record =>
             hasEntry(stateFile.history, record.version,
                      {"upload", "upload_overwrite"})
        /\ "publishedAt" \in DOMAIN record =>
             hasEntry(stateFile.history, record.version,
                      {"publish", "switch"})


\* C33. An archive with no usable entry (no entry at all, or only entries
\* under __MACOSX or without a name) is inspected as ok=false, flatten=false,
\* for the version it is uploaded as and for any other version, and the
\* upload ends with ZIP_STRUCTURE_MISMATCH.
C33_NoUsableEntry ==
  \A u \in Inspected :
    usableEntries(uzip[u]) = {} =>
      /\ ulayout[u] = [ok |-> FALSE, flatten |-> FALSE]
      /\ uresult[u] = "ZIP_STRUCTURE_MISMATCH"
      /\ \A version \in Versions :
           inspectArchiveLayout(uzip[u], version)
             = [ok |-> FALSE, flatten |-> FALSE]

\* An archive that has entries, all of them __MACOSX artifacts or without a
\* name, has been rejected.
C33_Witness ==
  \E u \in Inspected :
    /\ uzip[u] = {directory(<<"/">>), file(<<"__MACOSX">>),
                  directory(<<"__MACOSX", "\\">>)}
    /\ usableEntries(uzip[u]) = {}
    /\ upc[u] = "done"
    /\ uresult[u] = "ZIP_STRUCTURE_MISMATCH"


\* C34. Staging cleanup: the staging directory of an extraction exists while
\* the extraction is under way and at no other time: it has been removed
\* when the extraction has returned, and when it has thrown because the
\* unzip, the removal of the destination, its creation or the copy failed.
C34_StagingCleanup ==
  \A u \in Uploaders : utemp[u] <=> upc[u] \in {"extractRm", "extractCp"}

\* An extraction threw in its copy, leaving a part of the bundle in place,
\* and its staging directory is gone.
C34_Witness ==
  \E u \in Uploaders :
    /\ upc[u] = "done"
    /\ uresult[u] = "INTERNAL"
    /\ uver[u] = "100"
    /\ bundleFiles(bundle["100"]) # {}
    /\ bundleFiles(bundle["100"]) # effectiveSource(u)
    /\ bundleFiles(bundle["100"]) \subseteq effectiveSource(u)
    /\ ~utemp[u]

\* C35. Linear backoff: the k-th delay withRetry sleeps is baseDelay * k and
\* follows the k-th attempt, which failed with a transient error; the attempt
\* that ends the call (a success, a non-transient failure, or the last
\* attempt allowed) is followed by no delay.
C35_LinearBackoff ==
  /\ \A k \in 1..Len(wslept) :
       /\ wslept[k] = wbaseDelay * k
       /\ wattempts[k] # NoFile
       /\ wattempts[k][1] \in TransientErrors
  /\ wpc = "task" => Len(wslept) = Len(wattempts)
  /\ wpc \in {"sleep", "done"} => Len(wslept) = Len(wattempts) - 1

\* With base delay 250 and R = 2, three transient failures: 250 and 500 were
\* slept and the third failure was thrown with no further delay.
C35_Witness ==
  /\ wpc = "done"
  /\ wresult = "thrown"
  /\ wretries = 2
  /\ wbaseDelay = 250
  /\ Len(wattempts) = 3
  /\ wattempts[3][1] \in TransientErrors
  /\ wslept = <<250, 500>>

\* An applyVersion call of the applier is under way.
calling(p) == apc[p] \notin {"idle", "done"}

\* C36. Bounded waiting: a caller finds the lock file held at most
\* LockRetries times; it enters the critical section only after fewer failed
\* attempts than that, and when it leaves the acquisition loop without the
\* lock it fails with LOCK_BUSY; and with a process that keeps running every
\* call under way comes to its end, whatever the other callers do.
C36_BoundedWaiting ==
  /\ [](\A p \in Appliers :
          /\ attempt[p] <= LockRetries
          /\ apc[p] \in InLock => attempt[p] < LockRetries
          /\ apc[p] = "acquire" => attempt[p] < LockRetries)
  /\ [][\A p \in Appliers :
          (apc[p] = "acquire" /\ apc'[p] # "acquire") =>
             \/ apc'[p] \in InLock /\ handle'[p] /\ ~lockFile /\ lockFile'
             \/ /\ apc'[p] = "done"
                /\ aresult'[p] = "LOCK_BUSY"
                /\ attempt'[p] = LockRetries]_vars
  /\ \A p \in Appliers : calling(p) ~> apc[p] = "done"

\* A caller found the lock file held once, the holder has ended, and the
\* caller has entered the critical section at its second attempt.
C36_Witness ==
  \E p, q \in Appliers :
    /\ p # q
    /\ apc[p] = "done"
    /\ aresult[p] = "changed"
    /\ apc[q] \in InLock
    /\ attempt[q] = 1
    /\ handle[q]

\* The documents passed to the atomicWriteState calls that have written the
\* temporary file and not yet renamed it.
writing ==
  {normalizeState(anext[p]) : p \in {q \in Appliers : apc[q] = "setRename"}}
    \cup {normalizeState(unext[u]) :
            u \in {v \in Uploaders : upc[v] = "recordRename"}}

\* C37. Overlapping registry writes: the rename that ends an
\* atomicWriteState call succeeds, also when another call has written the
\* temporary file in between, and the live document it leaves is, in full,
\* the document passed to one of the calls then under way.
C37_OverlappingWrites ==
  [][/\ \A p \in Appliers :
          (apc[p] = "setRename" /\ apc'[p] # "setRename") =>
             /\ aresult'[p] = "changed"
             /\ stateFile' \in writing
     /\ \A u \in Uploaders :
          (upc[u] = "recordRename" /\ upc'[u] # "recordRename") =>
             /\ uresult'[u] \in {"uploaded", "uploaded_overwrite"}
             /\ stateFile' \in writing]_vars

\* A process has stopped inside the critical section.
stopped == \E p \in Appliers : apc[p] = "stopped"

\* C38. No stale-lock recovery: once a process has stopped inside the
\* critical section its lock file stays, whatever the other callers and the
\* uploads do; no caller is inside the critical section from then on, every
\* applyVersion call that ends its wait ends it with LOCK_BUSY after
\* LockRetries attempts, and no step of a publish/switch request changes the
\* registry document or its temporary file.
C38_NoStaleLockRecovery ==
  /\ [](stopped => lockFile /\ Inside = {})
  /\ [][stopped =>
          /\ lockFile'
          /\ \A q \in Appliers :
               /\ (apc[q] = "acquire" /\ apc'[q] # "acquire") =>
                    /\ apc'[q] = "done"
                    /\ aresult'[q] = "LOCK_BUSY"
                    /\ attempt'[q] = LockRetries
               /\ (apc'[q] # apc[q] \/ attempt'[q] # attempt[q]) =>
                    /\ stateFile' = stateFile
                    /\ tempFile' = tempFile
                    /\ applied' = applied]_vars

\* A process stopped inside the critical section before it wrote anything;
\* a later caller has polled and failed as busy, and the lock file is there.
C38_Witness ==
  \E p, q \in Appliers :
    /\ apc[p] = "stopped"
    /\ apc[q] = "done"
    /\ aresult[q] = "LOCK_BUSY"
    /\ lockFile
    /\ stateFile = DEFAULT_STATE

====
